---- MODULE Spec2Model ----
(***************************************************************************)
(* Request-governance layer of akshare-a-share-skills: the pacing limiter, *)
(* the backoff retrier, the TTL cache and the governed calls built on      *)
(* them (scripts/rate_limiter.py, scripts/headers.py, scripts/spot.py,     *)
(* scripts/hist.py and their siblings).                                    *)
(*                                                                         *)
(* Time is in whole seconds.  time.time() / datetime.now() read `clock`,   *)
(* which never goes backwards; time.sleep(d) returns no earlier than d     *)
(* seconds after it was called.                                            *)
(***************************************************************************)
EXTENDS Integers, Sequences, FiniteSets, TLC

VARIABLES
    clock,              \* wall clock read by time.time() and datetime.now()
    pc,                 \* per thread: the statement it is about to run
    caller,             \* per thread: what called wait() ("direct" or "gov")
    sleep_until,        \* per thread: earliest instant its time.sleep() returns
    \* ---- headers.RequestHeaders (class attributes)
    hdr_initialized,    \* RequestHeaders._initialized
    hdr_session,        \* RequestHeaders._session: NoSession or [id, ua]
    sessions_created,   \* number of requests.Session() objects ever made
    \* ---- RateLimiter
    min_interval,
    max_interval,
    enable_random,
    last_request_time,  \* RateLimiter._last_request_time
    limiter_lock,       \* RateLimiter._lock: the holder, or NoThread
    wait_elapsed,       \* per thread: local `elapsed` of wait()
    wait_slept,         \* per thread: sleep_time of the wait() in progress
    releases,           \* instants at which _last_request_time was written
    wait_calls,         \* number of wait() calls started
    \* ---- RetryHandler
    retry_handler,      \* the global _retry_handler: a policy record
    handler,            \* per thread: the RetryHandler its execute() runs on
    attempt,            \* per thread: loop variable of execute()
    last_error,         \* per thread: local `last_error` of execute()
    xlog,               \* per thread: invocations and sleeps of its execute()
    outcome,            \* per thread: what its execute() returned or raised
    calc,               \* one application of calculate_delay: inputs and result
    \* ---- DataCache
    cache,              \* DataCache._cache: key -> [value, expire]
    ttl_seconds,        \* DataCache.ttl_seconds
    last_set,           \* key -> the most recent set() of that key
    cache_op,           \* the most recent get/set/clear and what it did
    \* ---- governed calls (get_spot, get_hist, ...)
    gov_args,           \* per thread: the arguments of its governed call
    gov_result,         \* per thread: what its governed call returned or raised
    gov_calls,          \* number of governed calls started
    gov_tried,          \* per thread: the sources its governed call has fetched from
    alt_source,         \* per thread: local `alt_source` of get_minute / get_intraday
    \* ---- DataCache, statement by statement
    cache_lock,         \* DataCache._lock: the holder, or NoThread
    cache_call,         \* per thread: the get/set/clear it is running, its locals
    lin,                \* the table and results of the same calls run one at a time
    \* ---- DataCache._make_key
    mk,                 \* two applications of _make_key: inputs and results
    \* ---- SourceRouter
    failed_sources,     \* SourceRouter._failed_sources: operation -> set of sources
    router_op,          \* the most recent router call and what it did
    router_lock,        \* SourceRouter._lock: the holder, or NoThread
    router_call,        \* per thread: the router call it is running
    \* ---- RateLimiter.set_interval
    set_call,           \* per thread: the arguments of its set_interval call
    configs,            \* the <<min_interval, max_interval>> pairs asked for so far, in order
    \* ---- cli.py
    cli,                \* per thread: the parsed command line (argparse's `args`)
    \* ---- the global singletons and their getters
    getters,            \* the four globals, and per thread: the getter call it is in
    \* ---- macro.get_index_spot
    index_spot,         \* per thread: the symbols still to fetch, the fetches made
    \* ---- the cached decorator
    wrapped             \* the calls of decorated functions: those running, those finished

limiterVars == <<min_interval, max_interval, enable_random, last_request_time,
                 limiter_lock, wait_elapsed, wait_slept, releases, wait_calls>>
headerVars == <<hdr_initialized, hdr_session, sessions_created>>
retryVars == <<retry_handler, handler, attempt, last_error, xlog, outcome>>
threadVars == <<pc, caller, sleep_until>>
cacheVars == <<cache, ttl_seconds, last_set, cache_op>>
\* what the limiter and the header code leave alone
govVars == <<gov_args, gov_result, gov_calls, gov_tried, alt_source>>
atomicVars == <<cache_lock, cache_call, lin>>
routerVars == <<failed_sources, router_op>>
routerLockVars == <<router_lock, router_call>>
reconfVars == <<set_call, configs>>
laterVars == <<getters, index_spot, wrapped>>
extraVars == <<routerLockVars, reconfVars, cli, laterVars>>
outsideLimiter == <<retryVars, calc, cacheVars, govVars, atomicVars, mk, extraVars, routerVars>>
\* what the retrier leaves alone
outsideRetry == <<headerVars, limiterVars, cacheVars, govVars, atomicVars, mk, extraVars, routerVars>>
\* what the cache leaves alone
outsideCache == <<threadVars, headerVars, limiterVars, retryVars, calc, govVars,
                  atomicVars, mk, extraVars, routerVars>>
\* everything but the clock
timeless == <<threadVars, headerVars, limiterVars, retryVars, calc, cacheVars,
              govVars, atomicVars, mk, extraVars, routerVars>>
vars == <<clock, timeless>>

----------------------------------------------------------------------------
(* Bounds of the model *)

NumThreads == 2
\* the clock's value when the process starts (seconds since the epoch)
EpochNow == 4
\* how far the clock may run past EpochNow
Horizon == 4
\* largest pacing bound drawn for min_interval / max_interval
MaxInterval == 2
\* wait() calls started in one behaviour
MaxWaitCalls == 2
\* how many of headers.USER_AGENTS the model tells apart
NumUA == 2

\* largest max_retries drawn for a RetryHandler
MaxRetries == 3
\* largest attempt index calculate_delay is applied to
MaxAttemptIndex == 4
\* largest ttl_seconds drawn for a DataCache
MaxTtl == 2
\* get/set/clear calls made on the cache in one behaviour
MaxCacheOps == 3
\* governed calls started in one behaviour
MaxGovCalls == 2
\* largest max_retries of the handler the governed calls run on
MaxGovRetries == 1
\* how far the clock may run past EpochNow while governed calls sleep
GovHorizon == 6
\* router calls made by clients in one behaviour
MaxRouterOps == 3
\* keyword arguments of one _make_key call
MaxKwargs == 2
\* router calls other threads make while a governed call with failover runs
MaxMeddling == 2
\* set_interval calls started in one behaviour
MaxSetCalls == 1
\* cache calls, and router calls, made while the three locks are watched
MaxLockCalls == 2

Threads == 1..NumThreads
NoThread == 0
MaxClock == EpochNow + Horizon
NoSession == [id |-> 0, ua |-> 0]
UserAgents == 1..NumUA

Min(a, b) == IF a <= b THEN a ELSE b
Max(a, b) == IF a >= b THEN a ELSE b

----------------------------------------------------------------------------
(* The clock *)

\* one second passes
Tick ==
    /\ clock < MaxClock
    /\ clock' = clock + 1
    /\ UNCHANGED timeless

----------------------------------------------------------------------------
(* headers.py *)

\* RequestHeaders.init_session, line 51: if cls._initialized: return
InitSessionCheck(t) ==
    /\ pc[t] = "h_check"
    /\ pc' = [pc EXCEPT ![t] = IF hdr_initialized THEN "h_rotate" ELSE "h_create"]
    /\ UNCHANGED <<clock, caller, sleep_until, headerVars, limiterVars, outsideLimiter>>

\* lines 55-76: cls._session = requests.Session(); headers.update(...)
InitSessionCreate(t) ==
    /\ pc[t] = "h_create"
    /\ \E ua \in UserAgents :
         hdr_session' = [id |-> sessions_created + 1, ua |-> ua]
    /\ sessions_created' = sessions_created + 1
    /\ pc' = [pc EXCEPT ![t] = "h_mark"]
    /\ UNCHANGED <<clock, caller, sleep_until, hdr_initialized, limiterVars, outsideLimiter>>

\* line 78: cls._initialized = True
InitSessionMark(t) ==
    /\ pc[t] = "h_mark"
    /\ hdr_initialized' = TRUE
    /\ pc' = [pc EXCEPT ![t] = "h_rotate"]
    /\ UNCHANGED <<clock, caller, sleep_until, hdr_session, sessions_created, limiterVars, outsideLimiter>>

\* RequestHeaders.rotate_user_agent: a fresh random User-Agent on the session
RotateUserAgent(t) ==
    /\ pc[t] = "h_rotate"
    /\ IF hdr_session = NoSession
       THEN UNCHANGED hdr_session
       ELSE \E ua \in UserAgents : hdr_session' = [hdr_session EXCEPT !.ua = ua]
    /\ pc' = [pc EXCEPT ![t] = "w_lock"]
    /\ UNCHANGED <<clock, caller, sleep_until, hdr_initialized, sessions_created, limiterVars, outsideLimiter>>

----------------------------------------------------------------------------
(* RateLimiter *)

\* random.uniform(a, b): any value between the two ends, whichever is larger
Uniform(a, b) == Min(a, b)..Max(a, b)

\* a target drawn from zero up to max_interval
WaitTimes_FromZero(lo, hi, rnd) == IF rnd THEN Uniform(0, hi) ELSE {lo}

\* wait(), lines 66-69: the target wait duration
WaitTimes(lo, hi, rnd) == IF rnd THEN Uniform(lo, hi) ELSE {lo}

\* a thread calls limiter.wait() on its own
WaitCall(t) ==
    /\ pc[t] = "idle"
    /\ wait_calls < MaxWaitCalls
    /\ wait_calls' = wait_calls + 1
    /\ pc' = [pc EXCEPT ![t] = "h_check"]
    /\ caller' = [caller EXCEPT ![t] = "direct"]
    /\ UNCHANGED <<clock, headerVars, min_interval, max_interval, enable_random,
                   last_request_time, limiter_lock, wait_elapsed, sleep_until,
                   wait_slept, releases, outsideLimiter>>

\* line 60: with self._lock
WaitAcquire(t) ==
    /\ pc[t] = "w_lock"
    /\ limiter_lock = NoThread
    /\ limiter_lock' = t
    /\ pc' = [pc EXCEPT ![t] = "w_check"]
    /\ UNCHANGED <<clock, caller, headerVars, min_interval, max_interval,
                   enable_random, last_request_time, wait_elapsed, sleep_until,
                   wait_slept, releases, wait_calls, outsideLimiter>>

\* lines 61-64: now = time.time(); elapsed = now - last; if elapsed < min_interval
WaitCheck(t) ==
    /\ pc[t] = "w_check"
    /\ wait_elapsed' = [wait_elapsed EXCEPT ![t] = clock - last_request_time]
    /\ pc' = [pc EXCEPT ![t] =
                IF clock - last_request_time < min_interval
                THEN "w_target" ELSE "w_write"]
    /\ wait_slept' = [wait_slept EXCEPT ![t] = 0]
    /\ UNCHANGED <<clock, caller, headerVars, min_interval, max_interval,
                   enable_random, last_request_time, limiter_lock, sleep_until,
                   releases, wait_calls, outsideLimiter>>

\* lines 66-74: wait_time, sleep_time = wait_time - elapsed, time.sleep
WaitTarget(t) ==
    /\ pc[t] = "w_target"
    /\ \E wait_time \in WaitTimes(min_interval, max_interval, enable_random) :
         LET sleep_time == wait_time - wait_elapsed[t] IN
         IF sleep_time > 0
         THEN /\ sleep_until' = [sleep_until EXCEPT ![t] = clock + sleep_time]
              /\ wait_slept' = [wait_slept EXCEPT ![t] = sleep_time]
              /\ pc' = [pc EXCEPT ![t] = "w_sleep"]
         ELSE /\ pc' = [pc EXCEPT ![t] = "w_write"]
              /\ UNCHANGED <<sleep_until, wait_slept>>
    /\ UNCHANGED <<clock, caller, headerVars, min_interval, max_interval,
                   enable_random, last_request_time, limiter_lock, wait_elapsed,
                   releases, wait_calls, outsideLimiter>>

\* line 74: time.sleep(sleep_time) returns
WaitSleep(t) ==
    /\ pc[t] = "w_sleep"
    /\ clock >= sleep_until[t]
    /\ pc' = [pc EXCEPT ![t] = "w_write"]
    /\ UNCHANGED <<clock, caller, sleep_until, headerVars, limiterVars, outsideLimiter>>

\* a stamp that records the time since the last request instead of the instant
Stamp_SinceLast(t) == clock - last_request_time

\* line 76: the value of time.time() as thread t writes it
Stamp(t) == clock

\* line 76: self._last_request_time = time.time(), and the lock is released
WaitWrite(t) ==
    /\ pc[t] = "w_write"
    /\ last_request_time' = Stamp(t)
    /\ releases' = Append(releases, clock)
    /\ limiter_lock' = NoThread
    /\ pc' = [pc EXCEPT ![t] = CASE caller[t] = "direct" -> "idle"
                                  [] caller[t] = "index_spot" -> "i_loop"
                                  [] OTHER -> "g_execute"]
    /\ wait_elapsed' = [wait_elapsed EXCEPT ![t] = 0]
    /\ sleep_until' = [sleep_until EXCEPT ![t] = 0]
    /\ UNCHANGED <<clock, caller, headerVars, min_interval, max_interval,
                   enable_random, wait_slept, wait_calls, outsideLimiter>>

\* the steps of one wait() call
WaitSteps(t) ==
    \/ InitSessionCheck(t)
    \/ InitSessionCreate(t)
    \/ InitSessionMark(t)
    \/ RotateUserAgent(t)
    \/ WaitAcquire(t)
    \/ WaitCheck(t)
    \/ WaitTarget(t)
    \/ WaitSleep(t)
    \/ WaitWrite(t)

----------------------------------------------------------------------------
(* RateLimiter.set_interval: two assignments, made without the lock *)

\* max_interval=None, the parameter's default (line 78)
NoneInterval == -1
NoSetCall == [min_interval |-> 0, max_interval |-> NoneInterval]

\* a thread calls limiter.set_interval(lo, hi); the pair it asks for joins configs
SetIntervalCall(t, lo, hi) ==
    /\ pc[t] = "idle"
    /\ Len(configs) <= MaxSetCalls
    /\ set_call' = [set_call EXCEPT ![t] = [min_interval |-> lo, max_interval |-> hi]]
    /\ configs' = Append(configs, <<lo, IF hi = NoneInterval THEN max_interval ELSE hi>>)
    /\ pc' = [pc EXCEPT ![t] = "s_min"]
    /\ UNCHANGED <<clock, caller, sleep_until, headerVars, limiterVars, retryVars, calc,
                   cacheVars, govVars, atomicVars, mk, routerVars, routerLockVars, cli,
                   laterVars>>

\* line 80: self.min_interval = min_interval
SetIntervalMin(t) ==
    /\ pc[t] = "s_min"
    /\ min_interval' = set_call[t].min_interval
    /\ pc' = [pc EXCEPT ![t] = "s_max"]
    /\ UNCHANGED <<clock, caller, sleep_until, headerVars, max_interval, enable_random,
                   last_request_time, limiter_lock, wait_elapsed, wait_slept, releases,
                   wait_calls, outsideLimiter>>

\* lines 81-82: if max_interval is not None: self.max_interval = max_interval
SetIntervalMax(t) ==
    /\ pc[t] = "s_max"
    /\ max_interval' = IF set_call[t].max_interval # NoneInterval
                       THEN set_call[t].max_interval ELSE max_interval
    /\ pc' = [pc EXCEPT ![t] = "idle"]
    /\ UNCHANGED <<clock, caller, sleep_until, headerVars, min_interval, enable_random,
                   last_request_time, limiter_lock, wait_elapsed, wait_slept, releases,
                   wait_calls, outsideLimiter>>

\* the steps of one set_interval call
SetIntervalSteps(t) ==
    \/ SetIntervalMin(t)
    \/ SetIntervalMax(t)

----------------------------------------------------------------------------
(* configure_rate_limiter *)

\* a thread has called get_rate_limiter().wait() and not yet returned from it
InWait(t) ==
    pc[t] \in {"h_check", "h_create", "h_mark", "h_rotate",
               "w_lock", "w_check", "w_target", "w_sleep", "w_write"}

\* configure_rate_limiter(lo, hi, rnd), lines 333-340: the global limiter
\* becomes a new RateLimiter, whose _last_request_time is 0.0 and whose lock
\* is free (lines 46-50).  Taken while no thread is inside wait(), so that
\* the limiter it replaces is used by nobody any more.
ConfigureRateLimiter(lo, hi, rnd) ==
    /\ \A t \in Threads : ~InWait(t)
    /\ Len(configs) <= MaxSetCalls
    /\ min_interval' = lo
    /\ max_interval' = hi
    /\ enable_random' = rnd
    /\ last_request_time' = 0
    /\ limiter_lock' = NoThread
    /\ configs' = Append(configs, <<lo, hi>>)
    /\ UNCHANGED <<clock, threadVars, headerVars, wait_elapsed, wait_slept, releases,
                   wait_calls, retryVars, calc, cacheVars, govVars, atomicVars, mk,
                   routerVars, routerLockVars, set_call, cli, laterVars>>

----------------------------------------------------------------------------
(* RetryHandler *)

\* Text is a sequence of one-character strings.
UpperCase == <<"A", "B", "C", "D", "E", "F", "G", "H", "I", "J", "K", "L", "M">> \o
             <<"N", "O", "P", "Q", "R", "S", "T", "U", "V", "W", "X", "Y", "Z">>
LowerCase == <<"a", "b", "c", "d", "e", "f", "g", "h", "i", "j", "k", "l", "m">> \o
             <<"n", "o", "p", "q", "r", "s", "t", "u", "v", "w", "x", "y", "z">>

\* str.lower()
LowerChar(c) ==
    IF \E i \in DOMAIN UpperCase : UpperCase[i] = c
    THEN LowerCase[CHOOSE i \in DOMAIN UpperCase : UpperCase[i] = c]
    ELSE c
Lower(s) == [i \in DOMAIN s |-> LowerChar(s[i])]

\* `k in s` on str
Contains(s, k) ==
    \E i \in 0..(Len(s) - Len(k)) : SubSeq(s, i + 1, i + Len(k)) = k

\* is_retryable_error, lines 113-124
retryable_keywords ==
    << <<"c", "o", "n", "n", "e", "c", "t", "i", "o", "n">>,
       <<"t", "i", "m", "e", "o", "u", "t">>,
       <<"r", "e", "s", "e", "t">>,
       <<"r", "e", "f", "u", "s", "e", "d">>,
       <<"4", "0", "3">>,
       <<"4", "2", "9">>,
       <<"r", "a", "t", "e", " ", "l", "i", "m", "i", "t">>,
       <<"t", "o", "o", " ", "m", "a", "n", "y", " ", "r", "e", "q", "u", "e", "s", "t">>,
       <<"f", "o", "r", "b", "i", "d", "d", "e", "n">>,
       <<"n", "e", "t", "w", "o", "r", "k">> >>

\* a classifier that takes every failure for a transient one
IsRetryableError_Always(error) == TRUE

\* is_retryable_error, lines 110 and 126
IsRetryableError(error) ==
    \E n \in DOMAIN retryable_keywords :
        Contains(Lower(error.msg), retryable_keywords[n])

\* random.uniform(1, 3), line 134
JitterLo == 1
JitterHi == 3
Jitters == Uniform(JitterLo, JitterHi)

\* calculate_delay with the cap moved after the jitter
CalculateDelay_CapAfterJitter(h, k, jitter) ==
    Min(h.base_delay * (2 ^ k) + (IF h.enable_random THEN jitter ELSE 0), h.max_delay)

\* calculate_delay with linear instead of exponential growth
CalculateDelay_Linear(h, k, jitter) ==
    LET delay == Min(h.base_delay * (2 * k), h.max_delay) IN
    IF h.enable_random THEN delay + jitter ELSE delay

\* calculate_delay without the min() of line 131
CalculateDelay_NoCap(h, k, jitter) ==
    LET delay == h.base_delay * (2 ^ k) IN
    IF h.enable_random THEN delay + jitter ELSE delay

\* calculate_delay(attempt), lines 130-136; jitter is the value random.uniform
\* returns, used only when the handler's enable_random is set
CalculateDelay(h, k, jitter) ==
    LET delay == Min(h.base_delay * (2 ^ k), h.max_delay) IN
    IF h.enable_random THEN delay + jitter ELSE delay

\* a loop that never comes round again
AttemptsAllowed_Once(h) == 1
\* range(self.max_retries): one attempt short
AttemptsAllowed_OffByOne(h) == h.max_retries
\* range(self.max_retries + 2): one attempt too many
AttemptsAllowed_OneMore(h) == h.max_retries + 2

\* execute(), line 150: range(self.max_retries + 1)
AttemptsAllowed(h) == h.max_retries + 1

\* the failures the model's fetch operations raise, by their text
MsgTimeout == <<"T", "i", "m", "e", "o", "u", "t">>
Msg429 == <<"H", "T", "T", "P", " ", "4", "2", "9">>
MsgBadData == <<"b", "a", "d", " ", "d", "a", "t", "a">>
Messages == {MsgTimeout, Msg429, MsgBadData}
\* stock codes, as text: an ordinary one, and two whose digits hold 403 / 429
Symbols ==
    { <<"0", "0", "0", "0", "0", "1">>,
      <<"6", "0", "0", "4", "0", "3">>,
      <<"3", "0", "0", "4", "2", "9">> }
\* spot.py line 63 and stock_info.py line 71: the ValueError of a fetch that
\* found no data, str(e) being the f-string with the symbol in it.  The
\* Chinese characters around the symbol (four before it; five after it in
\* _fetch_tx, five in _fetch_info) occur in no keyword; each stands as "_",
\* the last one as "q" (quote data) or "i" (basic information).
DataError(op, symbol) ==
    <<"_", "_", "_", "_", " ">> \o symbol
    \o <<" ", "_", "_", "_", "_", IF op = "info" THEN "i" ELSE "q">>
\* the values the model's fetch operations return
FetchResults == {"r1", "r2"}
\* what the operation run by thread t may raise and return: anything when
\* execute() is called on its own, one transient and one other failure and
\* one value for the fetch of a governed call
FailuresOf(t) ==
    CASE caller[t] = "direct" -> Messages
      [] caller[t] = "fetch" -> {MsgTimeout, DataError(gov_args[t].op, gov_args[t].symbol)}
      [] OTHER -> {MsgTimeout, MsgBadData}
ResultsOf(t) == IF caller[t] = "direct" THEN FetchResults ELSE {"r1"}

NoError == [msg |-> <<>>, id |-> 0]
\* `raise last_error` with last_error = None raises a TypeError of Python's own
RaiseNoneError == [msg |-> <<"T", "y", "p", "e", "E", "r", "r", "o", "r">>, id |-> -1]
NoOutcome == [kind |-> "none", val |-> "", err |-> NoError]
Returned(v) == [kind |-> "return", val |-> v, err |-> NoError]
Raised(e) == [kind |-> "raise", val |-> "", err |-> e]
\* the events of an execute() call, each with the time it began at
InvokeOk(v) ==
    [ev |-> "invoke", ok |-> TRUE, val |-> v, err |-> NoError, d |-> 0, at |-> clock]
InvokeFail(e) ==
    [ev |-> "invoke", ok |-> FALSE, val |-> "", err |-> e, d |-> 0, at |-> clock]
Slept(d) ==
    [ev |-> "sleep", ok |-> FALSE, val |-> "", err |-> NoError, d |-> d, at |-> clock]

\* where a thread goes when its execute() ends
AfterExecute(t) == IF caller[t] = "gov" THEN "g_result" ELSE "x_done"

\* an execute() that reads the global handler anew at every use
PolicyOf_Global(t) == retry_handler

\* `self` inside execute(): the handler the call was made on
PolicyOf(t) == handler[t]

\* configure_retry_handler(n, b, m), lines 343-350: the global handler becomes a
\* new RetryHandler, its enable_random left at the default of line 93
ConfigureRetryHandler(n, b, m) ==
    /\ retry_handler' = [max_retries |-> n, base_delay |-> b, max_delay |-> m,
                         enable_random |-> TRUE]
    /\ UNCHANGED <<clock, threadVars, handler, attempt, last_error, xlog, outcome,
                   calc, outsideRetry>>

\* a thread calls get_retry_handler().execute(func) on its own
ExecuteCall(t) ==
    /\ pc[t] = "idle"
    /\ handler' = [handler EXCEPT ![t] = retry_handler]
    /\ attempt' = [attempt EXCEPT ![t] = 0]
    /\ last_error' = [last_error EXCEPT ![t] = NoError]
    /\ xlog' = [xlog EXCEPT ![t] = <<>>]
    /\ outcome' = [outcome EXCEPT ![t] = NoOutcome]
    /\ pc' = [pc EXCEPT ![t] = "x_loop"]
    /\ caller' = [caller EXCEPT ![t] = "direct"]
    /\ UNCHANGED <<clock, sleep_until, retry_handler, calc, outsideRetry>>

\* line 150: for attempt in range(self.max_retries + 1); line 170 after the loop
ExecuteLoop(t) ==
    /\ pc[t] = "x_loop"
    /\ pc' = [pc EXCEPT ![t] =
                IF attempt[t] < AttemptsAllowed(PolicyOf(t))
                THEN "x_invoke" ELSE "x_raise"]
    /\ UNCHANGED <<clock, caller, sleep_until, retryVars, calc, outsideRetry>>

\* line 152: return func(*args, **kwargs), func returning a value
ExecuteInvokeOk(t) ==
    /\ pc[t] = "x_invoke"
    /\ \E v \in ResultsOf(t) :
         /\ xlog' = [xlog EXCEPT ![t] = Append(@, InvokeOk(v))]
         /\ outcome' = [outcome EXCEPT ![t] = Returned(v)]
    /\ pc' = [pc EXCEPT ![t] = AfterExecute(t)]
    /\ UNCHANGED <<clock, caller, sleep_until, retry_handler, handler, attempt,
                   last_error, calc, outsideRetry>>

\* lines 152-168: func raises e
ExecuteInvokeFail(t) ==
    /\ pc[t] = "x_invoke"
    /\ \E m \in FailuresOf(t) :
         LET e == [msg |-> m, id |-> Len(xlog[t]) + 1] IN
         /\ last_error' = [last_error EXCEPT ![t] = e]
         /\ IF ~IsRetryableError(e)
            THEN \* lines 156-158: raise
                 /\ xlog' = [xlog EXCEPT ![t] = Append(@, InvokeFail(e))]
                 /\ outcome' = [outcome EXCEPT ![t] = Raised(e)]
                 /\ pc' = [pc EXCEPT ![t] = AfterExecute(t)]
                 /\ UNCHANGED <<attempt, sleep_until>>
            ELSE IF attempt[t] < PolicyOf(t).max_retries
            THEN \* lines 160-166: delay = calculate_delay(attempt); time.sleep(delay)
                 \E j \in Jitters :
                   LET delay == CalculateDelay(PolicyOf(t), attempt[t], j) IN
                   /\ xlog' = [xlog EXCEPT ![t] = Append(Append(@, InvokeFail(e)), Slept(delay))]
                   /\ sleep_until' = [sleep_until EXCEPT ![t] = clock + delay]
                   /\ pc' = [pc EXCEPT ![t] = "x_sleep"]
                   /\ UNCHANGED <<attempt, outcome>>
            ELSE \* lines 167-168: the last attempt, only logged
                 /\ xlog' = [xlog EXCEPT ![t] = Append(@, InvokeFail(e))]
                 /\ attempt' = [attempt EXCEPT ![t] = @ + 1]
                 /\ pc' = [pc EXCEPT ![t] = "x_loop"]
                 /\ UNCHANGED <<outcome, sleep_until>>
    /\ UNCHANGED <<clock, caller, retry_handler, handler, calc, outsideRetry>>

\* line 166: time.sleep(delay) returns; the loop goes on
ExecuteWake(t) ==
    /\ pc[t] = "x_sleep"
    /\ clock >= sleep_until[t]
    /\ sleep_until' = [sleep_until EXCEPT ![t] = 0]
    /\ attempt' = [attempt EXCEPT ![t] = @ + 1]
    /\ pc' = [pc EXCEPT ![t] = "x_loop"]
    /\ UNCHANGED <<clock, caller, retry_handler, handler, last_error, xlog,
                   outcome, calc, outsideRetry>>

\* line 170: raise last_error
ExecuteRaiseLast(t) ==
    /\ pc[t] = "x_raise"
    /\ outcome' = [outcome EXCEPT ![t] =
                     Raised(IF last_error[t] = NoError
                            THEN RaiseNoneError ELSE last_error[t])]
    /\ pc' = [pc EXCEPT ![t] = AfterExecute(t)]
    /\ UNCHANGED <<clock, caller, sleep_until, retry_handler, handler, attempt,
                   last_error, xlog, calc, outsideRetry>>

\* the steps of one execute() call
ExecuteSteps(t) ==
    \/ ExecuteLoop(t)
    \/ ExecuteInvokeOk(t)
    \/ ExecuteInvokeFail(t)
    \/ ExecuteWake(t)
    \/ ExecuteRaiseLast(t)

\* time passes until the next sleeping thread is due
Sleeping == {t \in Threads : pc[t] \in {"w_sleep", "x_sleep"} /\ sleep_until[t] > clock}
AdvanceToWake ==
    /\ Sleeping # {}
    /\ clock' = CHOOSE c \in {sleep_until[t] : t \in Sleeping} :
                    \A t \in Sleeping : c <= sleep_until[t]
    /\ UNCHANGED timeless

\* the same, as far as the governed calls' horizon
AdvanceToWakeSoon ==
    /\ Sleeping # {}
    /\ \A t \in Sleeping : sleep_until[t] <= EpochNow + GovHorizon
    /\ clock' = CHOOSE c \in {sleep_until[t] : t \in Sleeping} :
                    \A t \in Sleeping : c <= sleep_until[t]
    /\ UNCHANGED timeless

\* one application of calculate_delay to the inputs held in calc
CalculateDelayApply ==
    /\ ~calc.done
    /\ \E j \in (IF calc.h.enable_random THEN Jitters ELSE {0}) :
         calc' = [calc EXCEPT !.jitter = j,
                              !.delay = CalculateDelay(calc.h, calc.k, j),
                              !.done = TRUE]
    /\ UNCHANGED <<clock, threadVars, headerVars, limiterVars, retryVars, cacheVars,
                   govVars, atomicVars, mk, extraVars, routerVars>>

----------------------------------------------------------------------------
(* DataCache *)

\* the miss signal of get(), and a value a caller may store as well
NoneValue == <<"None">>

EmptyTable == [x \in {} |-> [value |-> NoneValue, expire |-> 0]]
Without(tbl, k) == [x \in DOMAIN tbl \ {k} |-> tbl[x]]

\* a lookup that still serves an entry at the very instant it expires
CacheHit_Inclusive(tbl, k, now) == k \in DOMAIN tbl /\ now <= tbl[k].expire

\* get(), lines 194-196: the entry is there and datetime.now() < expire_time
CacheHit(tbl, k, now) == k \in DOMAIN tbl /\ now < tbl[k].expire

\* get(), lines 198 and 203: what get(key) returns
GetResult(tbl, k, now) == IF CacheHit(tbl, k, now) THEN tbl[k].value ELSE NoneValue

\* a lookup that leaves an expired entry in the table
GetTable_NoEvict(tbl, k, now) == tbl

\* get(), lines 199-201: an expired entry is deleted by the lookup
GetTable(tbl, k, now) ==
    IF k \in DOMAIN tbl /\ ~(now < tbl[k].expire) THEN Without(tbl, k) ELSE tbl

\* a set() that keeps the expiry of an entry already there
SetTable_KeepExpiry(tbl, k, v, now, ttl) ==
    [x \in DOMAIN tbl \cup {k} |->
        IF x = k
        THEN [value |-> v,
              expire |-> IF k \in DOMAIN tbl THEN tbl[k].expire ELSE now + ttl]
        ELSE tbl[x]]

\* set(), lines 208-209: expire_time = now + ttl_seconds; _cache[key] = (value, expire_time)
SetTable(tbl, k, v, now, ttl) ==
    [x \in DOMAIN tbl \cup {k} |->
        IF x = k THEN [value |-> v, expire |-> now + ttl] ELSE tbl[x]]

NoOp == [op |-> "none", key |-> <<>>, value |-> NoneValue, at |-> 0, ttl |-> 0,
         old |-> -1, evicted |-> FALSE, seq |-> 0]
NextSeq == cache_op.seq + 1

\* cache.get(k), lines 191-203
CacheGet(k) ==
    /\ cache' = GetTable(cache, k, clock)
    /\ cache_op' = [op |-> "get", key |-> k, value |-> GetResult(cache, k, clock),
                    at |-> clock, ttl |-> ttl_seconds,
                    old |-> IF k \in DOMAIN cache THEN cache[k].expire ELSE -1,
                    evicted |-> (k \in DOMAIN cache /\ k \notin DOMAIN GetTable(cache, k, clock)),
                    seq |-> NextSeq]
    /\ UNCHANGED <<ttl_seconds, last_set>>

\* cache.set(k, v), lines 205-210
CacheSet(k, v) ==
    /\ cache' = SetTable(cache, k, v, clock, ttl_seconds)
    /\ last_set' = [x \in DOMAIN last_set \cup {k} |->
                      IF x = k THEN [value |-> v, at |-> clock, ttl |-> ttl_seconds]
                      ELSE last_set[x]]
    /\ cache_op' = [op |-> "set", key |-> k, value |-> v, at |-> clock,
                    ttl |-> ttl_seconds,
                    old |-> IF k \in DOMAIN cache THEN cache[k].expire ELSE -1,
                    evicted |-> FALSE, seq |-> NextSeq]
    /\ UNCHANGED ttl_seconds

\* cache.clear(), lines 212-216
CacheClear ==
    /\ cache' = EmptyTable
    /\ cache_op' = [NoOp EXCEPT !.op = "clear", !.at = clock, !.seq = NextSeq]
    /\ UNCHANGED <<ttl_seconds, last_set>>

\* cache.ttl_seconds = x, the assignment callers make (spot.py line 38)
SetTtlSeconds(x) ==
    /\ ttl_seconds # x
    /\ ttl_seconds' = x
    /\ UNCHANGED <<clock, cache, last_set, cache_op, outsideCache>>

----------------------------------------------------------------------------
(* DataCache, statement by statement: threads running get, set and clear   *)
(* at once.  `lin` runs the same calls one at a time, each at the instant  *)
(* its call reads the clock (or, for a key not in the table, looks it up). *)

\* a `with self._lock` that excludes nobody
LockFree_Unlocked(l) == TRUE

\* one lock for the whole module: taken only while the limiter's is free too
LockFree_Global(l) == l = NoThread /\ limiter_lock = NoThread

\* `with self._lock`, lines 193, 207 and 214: entered only while nobody holds it
LockFree(l) == l = NoThread

NoEntry == [value |-> NoneValue, expire |-> 0]
NoCacheCall == [op |-> "none", key |-> <<>>, value |-> NoneValue, entry |-> NoEntry,
                result |-> NoneValue, expect |-> NoneValue, done |-> FALSE]
NoLin == [table |-> EmptyTable, set_since |-> {}, cleared |-> FALSE, calls |-> 0]

outsideAtomic == <<clock, caller, sleep_until, headerVars, limiterVars, retryVars,
                   calc, ttl_seconds, last_set, cache_op, govVars, mk, extraVars, routerVars>>

\* a thread calls cache.get(k), cache.set(k, v) or cache.clear()
AtomicCall(t, op, k, v) ==
    /\ pc[t] = "idle"
    /\ lin.calls < MaxCacheOps
    /\ lin' = [lin EXCEPT !.calls = @ + 1]
    /\ cache_call' = [cache_call EXCEPT ![t] =
                        [NoCacheCall EXCEPT !.op = op, !.key = k, !.value = v]]
    /\ pc' = [pc EXCEPT ![t] = "c_lock"]
    /\ UNCHANGED <<cache, cache_lock, outsideAtomic>>

\* with self._lock: the lock is taken
AtomicAcquire(t) ==
    /\ pc[t] = "c_lock"
    /\ LockFree(cache_lock)
    /\ cache_lock' = t
    /\ pc' = [pc EXCEPT ![t] = CASE cache_call[t].op = "get" -> "c_get_in"
                                 [] cache_call[t].op = "set" -> "c_set_exp"
                                 [] OTHER -> "c_clear"]
    /\ UNCHANGED <<cache, cache_call, lin, outsideAtomic>>

\* get(), lines 194-195: if key in self._cache: value, expire_time = self._cache[key];
\* line 203 when the key is not there
AtomicGetLookup(t) ==
    /\ pc[t] = "c_get_in"
    /\ LET k == cache_call[t].key IN
       IF k \in DOMAIN cache
       THEN /\ cache_call' = [cache_call EXCEPT ![t].entry = cache[k]]
            /\ pc' = [pc EXCEPT ![t] = "c_get_cmp"]
            /\ UNCHANGED <<cache_lock, lin>>
       ELSE /\ cache_call' = [cache_call EXCEPT
                                ![t].result = NoneValue,
                                ![t].expect = GetResult(lin.table, k, clock),
                                ![t].done = TRUE]
            /\ lin' = [lin EXCEPT !.table = GetTable(@, k, clock)]
            /\ cache_lock' = NoThread
            /\ pc' = [pc EXCEPT ![t] = "idle"]
    /\ UNCHANGED <<cache, outsideAtomic>>

\* get(), lines 196-198: if datetime.now() < expire_time: return value
AtomicGetCompare(t) ==
    /\ pc[t] = "c_get_cmp"
    /\ LET k == cache_call[t].key IN
       /\ lin' = [lin EXCEPT !.table = GetTable(@, k, clock)]
       /\ IF clock < cache_call[t].entry.expire
          THEN /\ cache_call' = [cache_call EXCEPT
                                   ![t].result = cache_call[t].entry.value,
                                   ![t].expect = GetResult(lin.table, k, clock),
                                   ![t].done = TRUE]
               /\ cache_lock' = NoThread
               /\ pc' = [pc EXCEPT ![t] = "idle"]
          ELSE /\ cache_call' = [cache_call EXCEPT
                                   ![t].expect = GetResult(lin.table, k, clock)]
               /\ pc' = [pc EXCEPT ![t] = "c_get_del"]
               /\ UNCHANGED cache_lock
    /\ UNCHANGED <<cache, outsideAtomic>>

\* get(), lines 199-203: del self._cache[key]; return None
AtomicGetDelete(t) ==
    /\ pc[t] = "c_get_del"
    /\ cache' = Without(cache, cache_call[t].key)
    /\ cache_call' = [cache_call EXCEPT ![t].result = NoneValue, ![t].done = TRUE]
    /\ cache_lock' = NoThread
    /\ pc' = [pc EXCEPT ![t] = "idle"]
    /\ UNCHANGED <<lin, outsideAtomic>>

\* set(), line 208: expire_time = datetime.now() + timedelta(seconds=self.ttl_seconds)
AtomicSetExpiry(t) ==
    /\ pc[t] = "c_set_exp"
    /\ cache_call' = [cache_call EXCEPT
                        ![t].entry = [value |-> cache_call[t].value,
                                      expire |-> clock + ttl_seconds]]
    /\ lin' = [lin EXCEPT
                 !.table = SetTable(@, cache_call[t].key, cache_call[t].value,
                                    clock, ttl_seconds),
                 !.set_since = @ \cup {cache_call[t].key}]
    /\ pc' = [pc EXCEPT ![t] = "c_set_put"]
    /\ UNCHANGED <<cache, cache_lock, outsideAtomic>>

\* set(), line 209: self._cache[key] = (value, expire_time)
AtomicSetPut(t) ==
    /\ pc[t] = "c_set_put"
    /\ cache' = [x \in DOMAIN cache \cup {cache_call[t].key} |->
                   IF x = cache_call[t].key THEN cache_call[t].entry ELSE cache[x]]
    /\ cache_call' = [cache_call EXCEPT ![t].done = TRUE]
    /\ cache_lock' = NoThread
    /\ pc' = [pc EXCEPT ![t] = "idle"]
    /\ UNCHANGED <<lin, outsideAtomic>>

\* clear(), line 215: self._cache.clear()
AtomicClear(t) ==
    /\ pc[t] = "c_clear"
    /\ cache' = EmptyTable
    /\ lin' = [lin EXCEPT !.table = EmptyTable, !.set_since = {}, !.cleared = TRUE]
    /\ cache_call' = [cache_call EXCEPT ![t].done = TRUE]
    /\ cache_lock' = NoThread
    /\ pc' = [pc EXCEPT ![t] = "idle"]
    /\ UNCHANGED outsideAtomic

\* the steps of one cache call
AtomicSteps(t) ==
    \/ AtomicAcquire(t)
    \/ AtomicGetLookup(t)
    \/ AtomicGetCompare(t)
    \/ AtomicGetDelete(t)
    \/ AtomicSetExpiry(t)
    \/ AtomicSetPut(t)
    \/ AtomicClear(t)

----------------------------------------------------------------------------
(* DataCache._make_key *)

\* Python compares str by code point; the keyword names here are lower case
CharRank(c) == CHOOSE i \in DOMAIN LowerCase : LowerCase[i] = c
RECURSIVE StrLess(_, _)
StrLess(a, b) ==
    IF b = <<>> THEN FALSE
    ELSE IF a = <<>> THEN TRUE
    ELSE IF a[1] # b[1] THEN CharRank(a[1]) < CharRank(b[1])
    ELSE StrLess(Tail(a), Tail(b))

\* tuple comparison of (name, value) items
ItemLess(p, q) == StrLess(p[1], q[1]) \/ (p[1] = q[1] /\ p[2] < q[2])

RECURSIVE InsertItem(_, _)
InsertItem(x, sorted) ==
    IF sorted = <<>> THEN <<x>>
    ELSE IF ItemLess(x, Head(sorted)) THEN <<x>> \o sorted
    ELSE <<Head(sorted)>> \o InsertItem(x, Tail(sorted))

\* the items in the order the call site wrote them
Sorted_AsWritten(items) == items

\* sorted(kwargs.items()), line 188
RECURSIVE Sorted(_)
Sorted(items) ==
    IF items = <<>> THEN <<>> ELSE InsertItem(Head(items), Sorted(Tail(items)))

\* line 188: key_data = f"{prefix}:{args}:{sorted(kwargs.items())}", by its parts
KeyData(prefix, args, kwargs) == <<prefix, args, Sorted(kwargs)>>

\* line 189: hashlib.md5(key_data.encode()).hexdigest(), a function of key_data
Md5(data) == [md5 |-> data]

\* _make_key(prefix, *args, **kwargs), lines 186-189
MakeKey(prefix, args, kwargs) == Md5(KeyData(prefix, args, kwargs))

NoMake == [a |-> [prefix |-> "", args |-> <<>>, kwargs |-> <<>>],
           b |-> [prefix |-> "", args |-> <<>>, kwargs |-> <<>>],
           key_a |-> Md5(<<>>), key_b |-> Md5(<<>>), done |-> TRUE]

\* both calls are made
MakeKeyApply ==
    /\ ~mk.done
    /\ mk' = [mk EXCEPT !.key_a = MakeKey(mk.a.prefix, mk.a.args, mk.a.kwargs),
                        !.key_b = MakeKey(mk.b.prefix, mk.b.args, mk.b.kwargs),
                        !.done = TRUE]
    /\ UNCHANGED <<clock, threadVars, headerVars, limiterVars, retryVars, calc,
                   cacheVars, govVars, atomicVars, extraVars, routerVars>>

----------------------------------------------------------------------------
(* SourceRouter *)

\* DEFAULT_SOURCES, lines 223-229: operation -> sources in priority order
DEFAULT_SOURCES ==
    [info |-> <<"em", "xq">>,
     spot |-> <<"em", "sina">>,
     hist |-> <<"em", "tx", "sina">>,
     minute |-> <<"em", "sina">>,
     intraday |-> <<"em", "sina">>]

\* Python's None, as get_source returns it and as `preferred` defaults to it
NoSource == "None"

\* `preferred and ...`: None and the empty string are falsy
TruthyStr(x) == x # NoSource /\ x # ""

\* line 251: self.sources.get(operation, [])
Available(op) == IF op \in DOMAIN DEFAULT_SOURCES THEN DEFAULT_SOURCES[op] ELSE <<>>
Configured(op) == {Available(op)[i] : i \in DOMAIN Available(op)}

\* line 254: self._failed_sources.get(operation, set())
Failed(fs, op) == IF op \in DOMAIN fs THEN fs[op] ELSE {}

\* line 255: [s for s in available_sources if s not in failed]
Candidates(fs, op) ==
    LET NotFailed(x) == x \notin Failed(fs, op) IN SelectSeq(Available(op), NotFailed)

\* a get_source that honours the preferred source without looking at the failed set
GetSource_PreferredAnyway(fs, op, preferred) ==
    IF TruthyStr(preferred) /\ preferred \in Configured(op)
    THEN preferred
    ELSE IF Candidates(fs, op) # <<>> THEN Candidates(fs, op)[1] ELSE NoSource

\* a get_source that takes the last surviving candidate instead of the first
GetSource_LastCandidate(fs, op, preferred) ==
    LET candidates == Candidates(fs, op) IN
    IF TruthyStr(preferred) /\ \E i \in DOMAIN candidates : candidates[i] = preferred
    THEN preferred
    ELSE IF candidates # <<>> THEN candidates[Len(candidates)] ELSE NoSource

\* get_source(operation, preferred), lines 249-262
GetSource(fs, op, preferred) ==
    LET candidates == Candidates(fs, op) IN
    IF TruthyStr(preferred) /\ \E i \in DOMAIN candidates : candidates[i] = preferred
    THEN preferred
    ELSE IF candidates # <<>> THEN candidates[1] ELSE NoSource

\* a mark_failed that forgets the source
MarkFailed_Forget(fs, op, src) ==
    [x \in DOMAIN fs \cup {op} |-> IF x = op THEN Failed(fs, op) ELSE fs[x]]

\* a mark_failed that marks the source failed for every operation on record
MarkFailed_AllOps(fs, op, src) ==
    [x \in DOMAIN fs \cup {op} |-> Failed(fs, x) \cup {src}]

\* mark_failed(operation, source), lines 266-269
MarkFailed(fs, op, src) ==
    [x \in DOMAIN fs \cup {op} |-> IF x = op THEN Failed(fs, op) \cup {src} ELSE fs[x]]

\* a mark_success that flips the mark instead of clearing it
MarkSuccess_Toggle(fs, op, src) ==
    IF op \in DOMAIN fs
    THEN [fs EXCEPT ![op] = IF src \in @ THEN @ \ {src} ELSE @ \cup {src}]
    ELSE MarkFailed(fs, op, src)

\* mark_success(operation, source), lines 274-276
MarkSuccess(fs, op, src) ==
    IF op \in DOMAIN fs THEN [fs EXCEPT ![op] = @ \ {src}] ELSE fs

\* reset(), line 281: self._failed_sources.clear()
NoFailures == [x \in {} |-> {}]

\* the record of a router call: what was called with what, what it returned,
\* the failed sets before it, whether it repeats the call before it, and the
\* marks <<operation, source>> made and not yet taken back by the calls so far
NoRouterOp == [op |-> "none", operation |-> "", source |-> "", result |-> NoSource,
               before |-> NoFailures, again |-> FALSE, marked |-> {},
               seq |-> 0, clients |-> 0]
RouterLog(kind, op, src, res, marked, c) ==
    [op |-> kind, operation |-> op, source |-> src, result |-> res,
     before |-> failed_sources,
     again |-> (router_op.op = kind /\ router_op.operation = op
                /\ router_op.source = src),
     marked |-> marked, seq |-> router_op.seq + 1, clients |-> router_op.clients + c]

\* router.get_source(op, preferred), lines 241-262
RouterGetSource(op, preferred, c) ==
    /\ router_op' = RouterLog("get_source", op, preferred,
                              GetSource(failed_sources, op, preferred),
                              router_op.marked, c)
    /\ UNCHANGED failed_sources

\* router.mark_failed(op, src), lines 264-270
RouterMarkFailed(op, src, c) ==
    /\ failed_sources' = MarkFailed(failed_sources, op, src)
    /\ router_op' = RouterLog("mark_failed", op, src, NoSource,
                              router_op.marked \cup {<<op, src>>}, c)

\* router.mark_success(op, src), lines 272-276
RouterMarkSuccess(op, src, c) ==
    /\ failed_sources' = MarkSuccess(failed_sources, op, src)
    /\ router_op' = RouterLog("mark_success", op, src, NoSource,
                              router_op.marked \ {<<op, src>>}, c)

\* router.reset(), lines 278-282
RouterReset(c) ==
    /\ failed_sources' = NoFailures
    /\ router_op' = RouterLog("reset", "", "", NoSource, {}, c)

\* what the router leaves alone
outsideRouter == <<clock, threadVars, headerVars, limiterVars, retryVars, calc,
                   cacheVars, govVars, atomicVars, mk, extraVars>>

\* the calls a client of the router makes, MaxRouterOps of them at most
ClientGetSource(op, preferred) ==
    /\ router_op.clients < MaxRouterOps
    /\ RouterGetSource(op, preferred, 1)
    /\ UNCHANGED outsideRouter
ClientMarkFailed(op, src) ==
    /\ router_op.clients < MaxRouterOps
    /\ RouterMarkFailed(op, src, 1)
    /\ UNCHANGED outsideRouter
ClientMarkSuccess(op, src) ==
    /\ router_op.clients < MaxRouterOps
    /\ RouterMarkSuccess(op, src, 1)
    /\ UNCHANGED outsideRouter
ClientReset ==
    /\ router_op.clients < MaxRouterOps
    /\ RouterReset(1)
    /\ UNCHANGED outsideRouter

----------------------------------------------------------------------------
(* SourceRouter, statement by statement: each method is `with self._lock:` *)
(* around its body                                                         *)

NoRouterCall == [op |-> "none", operation |-> "", source |-> "", done |-> FALSE]

outsideRouterLock == <<clock, caller, sleep_until, headerVars, limiterVars, retryVars,
                       calc, cacheVars, govVars, atomicVars, mk, reconfVars, cli,
                       laterVars>>

\* a thread calls router.get_source / mark_failed / mark_success / reset
LockedCall(t, kind, op, src) ==
    /\ pc[t] = "idle"
    /\ router_op.clients < MaxRouterOps
    /\ router_call' = [router_call EXCEPT ![t] =
                          [op |-> kind, operation |-> op, source |-> src, done |-> FALSE]]
    /\ pc' = [pc EXCEPT ![t] = "r_lock"]
    /\ UNCHANGED <<router_lock, routerVars, outsideRouterLock>>

\* lines 249, 266, 274 and 280: with self._lock
LockedAcquire(t) ==
    /\ pc[t] = "r_lock"
    /\ LockFree(router_lock)
    /\ router_lock' = t
    /\ pc' = [pc EXCEPT ![t] = "r_body"]
    /\ UNCHANGED <<router_call, routerVars, outsideRouterLock>>

\* the body of the method, and the lock is released
LockedBody(t) ==
    /\ pc[t] = "r_body"
    /\ LET c == router_call[t] IN
       \/ c.op = "get_source" /\ RouterGetSource(c.operation, c.source, 1)
       \/ c.op = "mark_failed" /\ RouterMarkFailed(c.operation, c.source, 1)
       \/ c.op = "mark_success" /\ RouterMarkSuccess(c.operation, c.source, 1)
       \/ c.op = "reset" /\ RouterReset(1)
    /\ router_lock' = NoThread
    /\ router_call' = [router_call EXCEPT ![t].done = TRUE]
    /\ pc' = [pc EXCEPT ![t] = "idle"]
    /\ UNCHANGED outsideRouterLock

\* the steps of one router call
LockedSteps(t) ==
    \/ LockedAcquire(t)
    \/ LockedBody(t)

----------------------------------------------------------------------------
(* Governed calls: get_spot, get_hist, get_stock_info, get_index_daily,    *)
(* get_stock_news.  Each is: cache lookup, wait(), execute(_fetch), then   *)
(* cache.ttl_seconds = <the operation's TTL> and cache.set(key, output).   *)

GovOps == {"spot", "hist", "info", "index", "news"}
NoArgs == [op |-> "none", symbol |-> "", source |-> "", period |-> "", adjust |-> "",
           use_cache |-> FALSE]
NoGovResult == [kind |-> "none", val |-> <<>>, err |-> NoError]

\* the TTL each operation assigns before its cache.set
SpotTtl == 30
HistTtl == 3600
InfoTtl == 3600
IndexTtl == 3600
NewsTtl == 1800
MinuteTtl == 300
IntradayTtl == 300
\* the operations that fall back to another source (minute.py)
FailoverOps == {"minute", "intraday"}
OpTtl(op) ==
    CASE op = "spot" -> SpotTtl
      [] op = "hist" -> HistTtl
      [] op = "info" -> InfoTtl
      [] op = "index" -> IndexTtl
      [] op = "news" -> NewsTtl
      [] op = "minute" -> MinuteTtl
      [] op = "intraday" -> IntradayTtl

\* the source parameter's default value
DefaultSource(op) ==
    CASE op = "spot" -> "tx"
      [] op = "hist" -> "tx"
      [] op = "info" -> "em"
      [] op \in FailoverOps -> "em"
      [] OTHER -> ""

\* the period parameter's default value
DefaultPeriod(op) ==
    CASE op = "hist" -> "daily"
      [] op = "minute" -> "5"
      [] OTHER -> ""

\* cache_key: the f-string of each operation, as the tuple of its parts; the
\* model's calls leave start, end, news_type and limit fixed
GovKey(a) ==
    CASE a.op = "spot" -> <<"spot", a.symbol, a.source>>
      [] a.op = "hist" -> <<"hist", a.symbol, "20240101", "20240131", a.period, a.adjust>>
      [] a.op = "info" -> <<"info", a.symbol, a.source>>
      [] a.op = "index" -> <<"index", a.symbol, a.adjust>>
      [] a.op = "news" -> <<"news", "stock", a.symbol, "10">>
      [] a.op = "minute" -> <<"minute", a.symbol, a.period, a.source, a.adjust>>
      [] a.op = "intraday" -> <<"intraday", a.symbol, a.source>>

\* output: the dict built around the fetch's result (never empty, so truthy)
Output(a, r) ==
    IF a.op \in FailoverOps THEN <<a.op, a.symbol, a.source, r>> ELSE <<a.op, a.symbol, r>>

\* a lookup whose result is never taken for a hit
Truthy_Never(v) == FALSE

\* `if cached:` on what cache.get returned
Truthy(v) == v # NoneValue

GovArgs ==
    { [op |-> o, symbol |-> "000001", source |-> DefaultSource(o),
       period |-> DefaultPeriod(o), adjust |-> "", use_cache |-> u] :
        o \in GovOps, u \in BOOLEAN }

\* a thread calls get_spot / get_hist / ... with arguments a
GovCall(t, a) ==
    /\ pc[t] = "idle"
    /\ gov_calls < MaxGovCalls
    \* threads are interchangeable: they enter in the order of their numbers
    /\ \A u \in Threads : u < t => gov_args[u] # NoArgs
    /\ gov_calls' = gov_calls + 1
    /\ gov_args' = [gov_args EXCEPT ![t] = a]
    /\ gov_result' = [gov_result EXCEPT ![t] = NoGovResult]
    /\ gov_tried' = [gov_tried EXCEPT ![t] = <<>>]
    /\ alt_source' = [alt_source EXCEPT ![t] = NoSource]
    /\ caller' = [caller EXCEPT ![t] = "gov"]
    /\ pc' = [pc EXCEPT ![t] = IF a.use_cache THEN "g_lookup" ELSE "h_check"]
    /\ UNCHANGED <<clock, sleep_until, headerVars, limiterVars, retryVars, calc,
                   cacheVars, atomicVars, mk, extraVars, routerVars>>

\* spot.py lines 14-18: cached = get_cache().get(cache_key); if cached: return cached
GovLookup(t) ==
    /\ pc[t] = "g_lookup"
    /\ CacheGet(GovKey(gov_args[t]))
    /\ LET cached == GetResult(cache, GovKey(gov_args[t]), clock) IN
       IF Truthy(cached)
       THEN /\ gov_result' = [gov_result EXCEPT ![t] =
                                [kind |-> "return", val |-> cached, err |-> NoError]]
            /\ pc' = [pc EXCEPT ![t] = "g_done"]
       ELSE /\ pc' = [pc EXCEPT ![t] = "h_check"]
            /\ UNCHANGED gov_result
    /\ UNCHANGED <<clock, caller, sleep_until, headerVars, limiterVars, retryVars,
                   calc, gov_args, gov_calls, gov_tried, alt_source, atomicVars, mk, extraVars,
                   routerVars>>

\* spot.py line 26: get_retry_handler().execute(_fetch) is entered
GovExecute(t) ==
    /\ pc[t] = "g_execute"
    /\ handler' = [handler EXCEPT ![t] = retry_handler]
    /\ attempt' = [attempt EXCEPT ![t] = 0]
    /\ last_error' = [last_error EXCEPT ![t] = NoError]
    /\ xlog' = [xlog EXCEPT ![t] = <<>>]
    /\ outcome' = [outcome EXCEPT ![t] = NoOutcome]
    /\ gov_tried' = [gov_tried EXCEPT ![t] = Append(@, gov_args[t].source)]
    /\ pc' = [pc EXCEPT ![t] = "x_loop"]
    /\ UNCHANGED <<clock, caller, sleep_until, retry_handler, calc, headerVars,
                   limiterVars, cacheVars, gov_args, gov_result, gov_calls,
                   alt_source, atomicVars, mk, extraVars, routerVars>>

\* spot.py lines 25-36: a failure of execute() is re-raised; a result is
\* wrapped into output, and cached when use_cache.  minute.py lines 88-92:
\* get_minute and get_intraday catch the failure and turn to the router
GovResult(t) ==
    /\ pc[t] = "g_result"
    /\ IF outcome[t].kind = "raise" /\ gov_args[t].op \in FailoverOps
       THEN /\ pc' = [pc EXCEPT ![t] = "g_alt"]
            /\ UNCHANGED gov_result
       ELSE IF outcome[t].kind = "raise"
       THEN /\ gov_result' = [gov_result EXCEPT ![t] =
                                [kind |-> "raise", val |-> <<>>, err |-> outcome[t].err]]
            /\ pc' = [pc EXCEPT ![t] = "g_done"]
       ELSE IF gov_args[t].use_cache
       THEN /\ pc' = [pc EXCEPT ![t] = "g_ttl"]
            /\ UNCHANGED gov_result
       ELSE /\ gov_result' = [gov_result EXCEPT ![t] =
                                [kind |-> "return",
                                 val |-> Output(gov_args[t], outcome[t].val),
                                 err |-> NoError]]
            /\ pc' = [pc EXCEPT ![t] = "g_done"]
    /\ UNCHANGED <<clock, caller, sleep_until, headerVars, limiterVars, retryVars,
                   calc, cacheVars, gov_args, gov_calls, gov_tried, alt_source,
                   atomicVars, mk, extraVars, routerVars>>

\* spot.py lines 37-38: cache = get_cache(); cache.ttl_seconds = 30
GovSetTtl(t) ==
    /\ pc[t] = "g_ttl"
    /\ ttl_seconds' = OpTtl(gov_args[t].op)
    /\ pc' = [pc EXCEPT ![t] = "g_set"]
    /\ UNCHANGED <<clock, caller, sleep_until, headerVars, limiterVars, retryVars,
                   calc, cache, last_set, cache_op, govVars, atomicVars, mk, extraVars,
                   routerVars>>

\* spot.py lines 39-41: cache.set(cache_key, output); return output
GovCacheSet(t) ==
    /\ pc[t] = "g_set"
    /\ CacheSet(GovKey(gov_args[t]), Output(gov_args[t], outcome[t].val))
    /\ gov_result' = [gov_result EXCEPT ![t] =
                        [kind |-> "return",
                         val |-> Output(gov_args[t], outcome[t].val),
                         err |-> NoError]]
    /\ pc' = [pc EXCEPT ![t] = "g_done"]
    /\ UNCHANGED <<clock, caller, sleep_until, headerVars, limiterVars, retryVars,
                   calc, gov_args, gov_calls, gov_tried, alt_source, atomicVars, mk, extraVars,
                   routerVars>>

\* minute.py lines 92-94 and 98: alt_source = router.get_source("minute", source);
\* without an alternate that differs from source the failure is re-raised
GovAlt(t) ==
    /\ pc[t] = "g_alt"
    /\ RouterGetSource(gov_args[t].op, gov_args[t].source, 0)
    /\ LET alt == GetSource(failed_sources, gov_args[t].op, gov_args[t].source) IN
       /\ alt_source' = [alt_source EXCEPT ![t] = alt]
       /\ IF TruthyStr(alt) /\ alt # gov_args[t].source
          THEN /\ pc' = [pc EXCEPT ![t] = "g_mark"]
               /\ UNCHANGED gov_result
          ELSE /\ gov_result' = [gov_result EXCEPT ![t] =
                                   [kind |-> "raise", val |-> <<>>, err |-> outcome[t].err]]
               /\ pc' = [pc EXCEPT ![t] = "g_done"]
    /\ UNCHANGED <<clock, caller, sleep_until, headerVars, limiterVars, retryVars,
                   calc, cacheVars, gov_args, gov_calls, gov_tried, atomicVars, mk, extraVars>>

\* minute.py lines 96-97: router.mark_failed("minute", source);
\* return get_minute(symbol, period, alt_source, adjust, use_cache)
GovMark(t) ==
    /\ pc[t] = "g_mark"
    /\ RouterMarkFailed(gov_args[t].op, gov_args[t].source, 0)
    /\ gov_args' = [gov_args EXCEPT ![t].source = alt_source[t]]
    /\ pc' = [pc EXCEPT ![t] = IF gov_args[t].use_cache THEN "g_lookup" ELSE "h_check"]
    /\ UNCHANGED <<clock, caller, sleep_until, headerVars, limiterVars, retryVars,
                   calc, cacheVars, gov_result, gov_calls, gov_tried, alt_source,
                   atomicVars, mk, extraVars>>

\* the failover steps of get_minute and get_intraday
FailoverSteps(t) ==
    \/ GovAlt(t)
    \/ GovMark(t)

\* the steps of one governed call
GovSteps(t) ==
    \/ GovLookup(t)
    \/ GovExecute(t)
    \/ GovResult(t)
    \/ GovSetTtl(t)
    \/ GovCacheSet(t)

----------------------------------------------------------------------------
(* The fetch of one symbol under the retrier *)

\* spot.py line 26 and stock_info.py line 31: get_retry_handler().execute(_fetch)
\* on its own, _fetch being _fetch_tx(symbol) or _fetch_info(symbol)
FetchCall(t, op, symbol) ==
    /\ pc[t] = "idle"
    /\ gov_args' = [gov_args EXCEPT ![t] = [NoArgs EXCEPT !.op = op, !.symbol = symbol]]
    /\ handler' = [handler EXCEPT ![t] = retry_handler]
    /\ attempt' = [attempt EXCEPT ![t] = 0]
    /\ last_error' = [last_error EXCEPT ![t] = NoError]
    /\ xlog' = [xlog EXCEPT ![t] = <<>>]
    /\ outcome' = [outcome EXCEPT ![t] = NoOutcome]
    /\ pc' = [pc EXCEPT ![t] = "x_loop"]
    /\ caller' = [caller EXCEPT ![t] = "fetch"]
    /\ UNCHANGED <<clock, sleep_until, retry_handler, calc, headerVars, limiterVars,
                   cacheVars, gov_result, gov_calls, gov_tried, alt_source, atomicVars,
                   mk, extraVars, routerVars>>

----------------------------------------------------------------------------
(* cli.py: the command handlers and the governed calls they make.  A       *)
(* Python value is held as the text str() gives it, which is also what an  *)
(* f-string puts into a cache key: True and False for the two bools.       *)

\* a parameter without a default
Required == "<required>"

\* the def lines of the governed calls: the parameters in order, each with
\* its default
Signature(op) ==
    CASE op = "spot" ->
           << <<"symbol", Required>>, <<"source", "tx">>, <<"use_cache", "True">> >>
      [] op = "hist" ->
           << <<"symbol", Required>>, <<"start", Required>>, <<"end", Required>>,
              <<"period", "daily">>, <<"adjust", "">>, <<"source", "tx">>,
              <<"use_cache", "True">> >>
      [] op = "info" ->
           << <<"symbol", Required>>, <<"source", "em">>, <<"timeout", "None">>,
              <<"use_cache", "True">> >>
      [] op = "index" ->
           << <<"symbol", "000001">>, <<"adjust", "">>, <<"use_cache", "True">> >>
      [] op = "news" ->
           << <<"symbol", "None">>, <<"news_type", "market">>, <<"limit", "10">>,
              <<"use_cache", "True">> >>

NoKeywords == [n \in {} |-> ""]

\* Python's call binding: the positional arguments fill the parameters from
\* the left, the keyword arguments go by name, the rest keep their defaults
Bind(sig, pos, kw) ==
    [n \in {sig[i][1] : i \in DOMAIN sig} |->
        LET i == CHOOSE j \in DOMAIN sig : sig[j][1] = n IN
        IF i <= Len(pos) THEN pos[i]
        ELSE IF n \in DOMAIN kw THEN kw[n]
        ELSE sig[i][2]]

\* str(b) of a bool
PyStr(b) == IF b THEN "True" ELSE "False"
\* `if use_cache:` on a bound value
PyTruthy(v) == v \notin {"False", "None", ""}

\* a bound parameter, or d when the function has no such parameter
Field(b, n, d) == IF n \in DOMAIN b THEN b[n] ELSE d

\* cli.py lines 17-49: what each handler passes, in the order it passes it;
\* use_cache = not getattr(args, "no_cache", False)
CmdPositional(a) ==
    LET use_cache == PyStr(~a.no_cache) IN
    CASE a.command = "spot" -> <<a.symbol, use_cache>>
      [] a.command = "hist" -> <<a.symbol, a.start, a.end, a.adjust, use_cache>>
      [] a.command = "info" -> <<a.symbol, use_cache>>
      [] a.command = "index" -> <<a.symbol, use_cache>>
      [] a.command = "news" -> <<>>
CmdKeywords(a) ==
    IF a.command = "news"
    THEN [symbol |-> a.symbol, news_type |-> a.type, limit |-> "10",
          use_cache |-> PyStr(~a.no_cache)]
    ELSE NoKeywords

\* the arguments the governed call of a handler runs with
CmdArgs(a) ==
    LET b == Bind(Signature(a.command), CmdPositional(a), CmdKeywords(a)) IN
    [op |-> a.command,
     symbol |-> b["symbol"],
     source |-> Field(b, "source", DefaultSource(a.command)),
     period |-> Field(b, "period", DefaultPeriod(a.command)),
     adjust |-> Field(b, "adjust", ""),
     use_cache |-> PyTruthy(b["use_cache"])]

NoCli == [command |-> "", symbol |-> "", start |-> "", end |-> "", adjust |-> "",
          type |-> "", no_cache |-> FALSE]

\* main(), lines 53-93: args = parser.parse_args() for `<command> --symbol
\* 000001 ...`, with --adjust (hist) and --no-cache as given
CliParse(t, command, adjust, no_cache) ==
    /\ pc[t] = "idle"
    /\ gov_calls < MaxGovCalls
    /\ cli' = [cli EXCEPT ![t] =
                  [command |-> command, symbol |-> "000001", start |-> "20240101",
                   end |-> "20240131", adjust |-> adjust, type |-> "stock",
                   no_cache |-> no_cache]]
    /\ pc' = [pc EXCEPT ![t] = "cli_cmd"]
    /\ UNCHANGED <<clock, caller, sleep_until, headerVars, limiterVars, retryVars, calc,
                   cacheVars, govVars, atomicVars, mk, routerVars, routerLockVars,
                   reconfVars, laterVars>>

\* main(), line 100: args.func(args); the handler enters its governed call
CmdRun(t) ==
    /\ pc[t] = "cli_cmd"
    /\ LET a == CmdArgs(cli[t]) IN
       /\ gov_args' = [gov_args EXCEPT ![t] = a]
       /\ pc' = [pc EXCEPT ![t] = IF a.use_cache THEN "g_lookup" ELSE "h_check"]
    /\ gov_calls' = gov_calls + 1
    /\ gov_result' = [gov_result EXCEPT ![t] = NoGovResult]
    /\ gov_tried' = [gov_tried EXCEPT ![t] = <<>>]
    /\ alt_source' = [alt_source EXCEPT ![t] = NoSource]
    /\ caller' = [caller EXCEPT ![t] = "gov"]
    /\ UNCHANGED <<clock, sleep_until, headerVars, limiterVars, retryVars, calc,
                   cacheVars, atomicVars, mk, extraVars, routerVars>>

----------------------------------------------------------------------------
(* macro.get_index_spot: one wait(), then one fetch per symbol *)

\* macro.py line 82: the symbols fetched when none are given
DefaultIndexSymbols == <<"000001", "399001">>

NoIndexSpot == [symbols |-> <<>>, at |-> <<>>, result |-> <<>>]

outsideIndexSpot == <<clock, sleep_until, headerVars, limiterVars, retryVars, calc,
                      cacheVars, govVars, atomicVars, mk, routerVars, routerLockVars,
                      reconfVars, cli, getters, wrapped>>

\* a thread calls get_index_spot(symbols); lines 81-84: an empty or missing
\* list becomes the default one, then get_rate_limiter().wait()
IndexSpotCall(t, symbols) ==
    /\ pc[t] = "idle"
    /\ index_spot' = [index_spot EXCEPT ![t] =
                        [symbols |-> IF symbols = <<>> THEN DefaultIndexSymbols ELSE symbols,
                         at |-> <<>>, result |-> <<>>]]
    /\ caller' = [caller EXCEPT ![t] = "index_spot"]
    /\ pc' = [pc EXCEPT ![t] = "h_check"]
    /\ UNCHANGED outsideIndexSpot

\* lines 87-96: data = _fetch_tx_index(symbol) for the next symbol; a result
\* is appended, a failure of any kind is swallowed
IndexSpotFetch(t) ==
    /\ pc[t] = "i_loop"
    /\ index_spot[t].symbols # <<>>
    /\ \E ok \in BOOLEAN :
         index_spot' = [index_spot EXCEPT
                          ![t].symbols = Tail(@),
                          ![t].at = Append(@, clock),
                          ![t].result = IF ok THEN Append(@, Head(index_spot[t].symbols))
                                        ELSE @]
    /\ UNCHANGED <<pc, caller, outsideIndexSpot>>

\* line 98: return {"data": result}
IndexSpotReturn(t) ==
    /\ pc[t] = "i_loop"
    /\ index_spot[t].symbols = <<>>
    /\ pc' = [pc EXCEPT ![t] = "i_done"]
    /\ UNCHANGED <<caller, index_spot, outsideIndexSpot>>

\* the steps of one get_index_spot call after its wait()
IndexSpotSteps(t) ==
    \/ IndexSpotFetch(t)
    \/ IndexSpotReturn(t)

----------------------------------------------------------------------------
(* The global singletons, lines 285-330: get_rate_limiter, get_retry_handler, *)
(* get_cache and get_source_router, statement by statement.  An instance is   *)
(* known by the order in which it was created; None is 0.                     *)

Getters == {"get_rate_limiter", "get_retry_handler", "get_cache", "get_source_router"}
NoInstance == 0

\* the module globals are None, nothing has been created, nobody in a getter
NoGetters ==
    [global |-> [g \in Getters |-> NoInstance],
     created |-> [g \in Getters |-> 0],
     in |-> [t \in Threads |-> ""],
     got |-> [t \in Threads |-> [g \in Getters |-> NoInstance]]]

outsideGetters == <<clock, caller, sleep_until, headerVars, limiterVars, retryVars, calc,
                    cacheVars, govVars, atomicVars, mk, routerVars, routerLockVars,
                    reconfVars, cli, index_spot, wrapped>>

\* a thread calls the getter g
GetterCall(t, g) ==
    /\ pc[t] = "idle"
    /\ getters' = [getters EXCEPT !.in[t] = g]
    /\ pc' = [pc EXCEPT ![t] = "get_check"]
    /\ UNCHANGED outsideGetters

\* lines 295, 307, 320, 328: if _rate_limiter is None
Seen(g) == getters.global[g]

\* the test of the global
GetterCheck(t) ==
    /\ pc[t] = "get_check"
    /\ pc' = [pc EXCEPT ![t] =
                IF Seen(getters.in[t]) = NoInstance THEN "get_create" ELSE "get_return"]
    /\ UNCHANGED <<getters, outsideGetters>>

\* lines 296-300, 308-313, 321, 329: the global becomes a new instance
GetterCreate(t) ==
    /\ pc[t] = "get_create"
    /\ LET g == getters.in[t] IN
       getters' = [getters EXCEPT !.created[g] = @ + 1,
                                  !.global[g] = getters.created[g] + 1]
    /\ pc' = [pc EXCEPT ![t] = "get_return"]
    /\ UNCHANGED outsideGetters

\* lines 301, 314, 322, 330: return _rate_limiter, the global as it is now
GetterReturn(t) ==
    /\ pc[t] = "get_return"
    /\ LET g == getters.in[t] IN
       getters' = [getters EXCEPT !.got[t][g] = getters.global[g], !.in[t] = ""]
    /\ pc' = [pc EXCEPT ![t] = "idle"]
    /\ UNCHANGED outsideGetters

\* the steps of one getter call
GetterSteps(t) ==
    \/ GetterCheck(t)
    \/ GetterCreate(t)
    \/ GetterReturn(t)

----------------------------------------------------------------------------
(* The decorator cached(prefix, ttl), lines 379-402.  A decorated function  *)
(* is known by the prefix and the ttl it was decorated with.                *)

\* calls of decorated functions started in one behaviour
MaxWrappedCalls == 2

NoWrappedCall == [prefix |-> "", ttl |-> 0, key |-> Md5(<<>>), looked |-> 0,
                  looked_seq |-> 0, ran |-> FALSE, result |-> NoneValue]

\* nobody is in a wrapper and no call has returned
NoWrapped == [call |-> [t \in Threads |-> NoWrappedCall], calls |-> 0, log |-> <<>>]

outsideWrapped == <<caller, sleep_until, headerVars, limiterVars, retryVars, calc,
                    govVars, atomicVars, mk, routerVars, routerLockVars, reconfVars,
                    cli, getters, index_spot>>

\* a returned call, as the log keeps it
Finished(c, value, wrote, wrote_seq, expire) ==
    [prefix |-> c.prefix, ttl |-> c.ttl, key |-> c.key, looked |-> c.looked,
     looked_seq |-> c.looked_seq, ran |-> c.ran, value |-> value,
     wrote |-> wrote, wrote_seq |-> wrote_seq, expire |-> expire]

\* a thread calls a function decorated with cached(prefix, ttl); line 388:
\* cache_key = cache._make_key(prefix, *args, **kwargs).  `ttl` is the
\* decorator's parameter (line 379), which the wrapper never reads.
WrappedCall(t, prefix, ttl, args) ==
    /\ pc[t] = "idle"
    /\ wrapped.calls < MaxWrappedCalls
    /\ wrapped' = [wrapped EXCEPT
                     !.calls = @ + 1,
                     !.call[t] = [NoWrappedCall EXCEPT !.prefix = prefix, !.ttl = ttl,
                                                       !.key = MakeKey(prefix, args, <<>>)]]
    /\ pc' = [pc EXCEPT ![t] = "c_get"]
    /\ UNCHANGED <<clock, cacheVars, outsideWrapped>>

\* lines 391-393: cached_value = cache.get(cache_key); a value that is not
\* None is returned
WrappedGet(t) ==
    /\ pc[t] = "c_get"
    /\ CacheGet(wrapped.call[t].key)
    /\ LET c == [wrapped.call[t] EXCEPT !.looked = clock, !.looked_seq = NextSeq]
           cached_value == GetResult(cache, c.key, clock)
       IN  IF cached_value # NoneValue
           THEN /\ wrapped' = [wrapped EXCEPT
                                 !.call[t] = NoWrappedCall,
                                 !.log = Append(@, Finished(c, cached_value, -1, 0, -1))]
                /\ pc' = [pc EXCEPT ![t] = "idle"]
           ELSE /\ wrapped' = [wrapped EXCEPT !.call[t] = c]
                /\ pc' = [pc EXCEPT ![t] = "c_func"]
    /\ UNCHANGED <<clock, outsideWrapped>>

\* what a decorated function may return
WrappedValues == {<<"v1">>, NoneValue}

\* line 396: result = func(*args, **kwargs)
WrappedFunc(t) ==
    /\ pc[t] = "c_func"
    /\ \E v \in WrappedValues :
         wrapped' = [wrapped EXCEPT !.call[t].ran = TRUE, !.call[t].result = v]
    /\ pc' = [pc EXCEPT ![t] = "c_set"]
    /\ UNCHANGED <<clock, cacheVars, outsideWrapped>>

\* lines 397-398: cache.set(cache_key, result); return result
WrappedSet(t) ==
    /\ pc[t] = "c_set"
    /\ CacheSet(wrapped.call[t].key, wrapped.call[t].result)
    /\ wrapped' = [wrapped EXCEPT
                     !.call[t] = NoWrappedCall,
                     !.log = Append(@, Finished(wrapped.call[t], wrapped.call[t].result,
                                                clock, NextSeq, clock + ttl_seconds))]
    /\ pc' = [pc EXCEPT ![t] = "idle"]
    /\ UNCHANGED <<clock, outsideWrapped>>

\* the steps of one wrapper call
WrappedSteps(t) ==
    \/ WrappedGet(t)
    \/ WrappedFunc(t)
    \/ WrappedSet(t)

----------------------------------------------------------------------------
(* Initial states *)

ThreadInit ==
    /\ pc = [t \in Threads |-> "idle"]
    /\ caller = [t \in Threads |-> "direct"]
    /\ sleep_until = [t \in Threads |-> 0]

HeaderInit ==
    /\ hdr_initialized = FALSE
    /\ hdr_session = NoSession
    /\ sessions_created = 0

\* RateLimiter.__init__ with the given arguments
LimiterInit(lo, hi, rnd) ==
    /\ min_interval = lo
    /\ max_interval = hi
    /\ enable_random = rnd
    /\ last_request_time = 0
    /\ limiter_lock = NoThread
    /\ wait_elapsed = [t \in Threads |-> 0]
    /\ wait_slept = [t \in Threads |-> 0]
    /\ releases = <<>>
    /\ wait_calls = 0

\* RetryHandler.__init__ with the given arguments
Policy(n, b, m, rnd) ==
    [max_retries |-> n, base_delay |-> b, max_delay |-> m, enable_random |-> rnd]

\* get_retry_handler(), lines 309-311, and get_rate_limiter(), lines 297-298
DefaultMaxRetries == 3
DefaultBaseDelay == 5
DefaultMaxDelay == 60
DefaultMinInterval == 1
DefaultMaxInterval == 3
DefaultRetryHandler ==
    Policy(DefaultMaxRetries, DefaultBaseDelay, DefaultMaxDelay, TRUE)

\* the retry policies the model draws: max_retries is unchecked by
\* __init__, so a negative value is among them
Policies ==
    { Policy(n, b, m, rnd) : n \in (-1)..MaxRetries,
                             b \in {1, DefaultBaseDelay},
                             m \in {3, DefaultMaxDelay},
                             rnd \in BOOLEAN }

\* the global handler is h and no execute() is in progress
RetryInit(h) ==
    /\ retry_handler = h
    /\ handler = [t \in Threads |-> Policy(0, 0, 0, FALSE)]
    /\ attempt = [t \in Threads |-> 0]
    /\ last_error = [t \in Threads |-> NoError]
    /\ xlog = [t \in Threads |-> <<>>]
    /\ outcome = [t \in Threads |-> NoOutcome]

\* DataCache.__init__(ttl_seconds)
CacheInit(ttl) ==
    /\ cache = EmptyTable
    /\ ttl_seconds = ttl
    /\ last_set = [x \in {} |-> [value |-> NoneValue, at |-> 0, ttl |-> 0]]
    /\ cache_op = NoOp

\* get_cache(), line 321
DefaultTtl == 300

GovInit ==
    /\ gov_args = [t \in Threads |-> NoArgs]
    /\ gov_result = [t \in Threads |-> NoGovResult]
    /\ gov_calls = 0
    /\ gov_tried = [t \in Threads |-> <<>>]
    /\ alt_source = [t \in Threads |-> NoSource]

\* DataCache._lock free, nobody inside a cache call
AtomicInit ==
    /\ cache_lock = NoThread
    /\ cache_call = [t \in Threads |-> NoCacheCall]
    /\ lin = NoLin

\* SourceRouter.__init__, lines 237-239, with the failed sets fs
RouterInit(fs) ==
    /\ failed_sources = fs
    /\ router_op = NoRouterOp

NoCalc == [h |-> Policy(0, 0, 0, FALSE), k |-> 0, jitter |-> 0, delay |-> 0,
           done |-> TRUE]

\* SourceRouter._lock free, no set_interval in progress, no command line parsed
ExtraInit ==
    /\ router_lock = NoThread
    /\ router_call = [t \in Threads |-> NoRouterCall]
    /\ set_call = [t \in Threads |-> NoSetCall]
    /\ configs = << <<min_interval, max_interval>> >>
    /\ cli = [t \in Threads |-> NoCli]
    /\ getters = NoGetters
    /\ index_spot = [t \in Threads |-> NoIndexSpot]
    /\ wrapped = NoWrapped

----------------------------------------------------------------------------
(* SpecLimiter: one RateLimiter with fixed bounds, N threads calling wait() *)

InitLimiter ==
    /\ clock = EpochNow
    /\ ThreadInit
    /\ HeaderInit
    /\ \E lo \in 1..MaxInterval, hi \in 1..MaxInterval, rnd \in BOOLEAN :
         LimiterInit(lo, hi, rnd)
    /\ RetryInit(DefaultRetryHandler)
    /\ calc = NoCalc
    /\ CacheInit(DefaultTtl)
    /\ GovInit
    /\ AtomicInit
    /\ mk = NoMake
    /\ RouterInit(NoFailures)
    /\ ExtraInit

NextLimiter ==
    \/ Tick
    \/ \E t \in Threads : WaitCall(t)
    \/ \E t \in Threads : WaitSteps(t)

SpecLimiter == InitLimiter /\ [][NextLimiter]_vars

\* C1: any two release instants of one RateLimiter are at least min_interval
\* apart, for any interleaving of wait() calls.
C1_ReleasesSpaced ==
    \A i \in DOMAIN releases : \A j \in DOMAIN releases :
        i < j => releases[j] - releases[i] >= min_interval

\* The spacing does hold for every configuration with min_interval <= max_interval.
SpacedWhenOrdered ==
    (min_interval <= max_interval \/ ~enable_random) => C1_ReleasesSpaced

----------------------------------------------------------------------------
(* SpecRetry: one execute() call on a handler of any policy, the operation *)
(* free to return or to raise on each invocation                           *)

InitRetry ==
    /\ clock = EpochNow
    /\ ThreadInit
    /\ HeaderInit
    /\ LimiterInit(DefaultMinInterval, DefaultMaxInterval, TRUE)
    /\ \E h \in Policies : RetryInit(h)
    /\ calc = NoCalc
    /\ CacheInit(DefaultTtl)
    /\ GovInit
    /\ AtomicInit
    /\ mk = NoMake
    /\ RouterInit(NoFailures)
    /\ ExtraInit

NextRetry ==
    \/ ExecuteCall(1)
    \/ \E t \in Threads : ExecuteSteps(t)
    \/ AdvanceToWake

SpecRetry == InitRetry /\ [][NextRetry]_vars

IsInvoke(e) == e.ev = "invoke"
IsSleep(e) == e.ev = "sleep"
Invocations(t) == SelectSeq(xlog[t], IsInvoke)
Sleeps(t) == SelectSeq(xlog[t], IsSleep)
\* the transient vocabulary, by message
TransientMsgs == {MsgTimeout, Msg429}
AllTransient(t) ==
    \A i \in DOMAIN Invocations(t) :
        ~Invocations(t)[i].ok /\ Invocations(t)[i].err.msg \in TransientMsgs

\* C2: with max_retries = n >= 0, an operation that fails with a retryable
\* failure on every attempt is invoked exactly n+1 times (with n sleeps in
\* between) and execute() then raises the failure of the last attempt.
C2_RetryExhaustion ==
    \A t \in Threads :
        (pc[t] = "x_done" /\ handler[t].max_retries >= 0 /\ AllTransient(t))
        => /\ Len(Invocations(t)) = handler[t].max_retries + 1
           /\ Len(Sleeps(t)) = handler[t].max_retries
           /\ outcome[t] = Raised(Invocations(t)[Len(Invocations(t))].err)

C2_Witness ==
    \E t \in Threads :
        /\ pc[t] = "x_done" /\ AllTransient(t)
        /\ handler[t].max_retries = DefaultMaxRetries
        /\ Len(Invocations(t)) = DefaultMaxRetries + 1
        /\ outcome[t].kind = "raise"
        /\ outcome[t].err.id = Len(xlog[t])

\* C3: a non-retryable failure on any attempt is re-raised at once: it is the
\* last event of the call (no further invocation, no sleep after it), and on
\* the first attempt that means one invocation and no sleep.
C3_NonRetryableImmediate ==
    \A t \in Threads : \A i \in DOMAIN xlog[t] :
        (IsInvoke(xlog[t][i]) /\ ~xlog[t][i].ok /\ xlog[t][i].err.msg = MsgBadData)
        => /\ i = Len(xlog[t])
           /\ outcome[t] = Raised(xlog[t][i].err)
           /\ pc[t] = "x_done"
           /\ (i = 1 => Len(Invocations(t)) = 1 /\ Len(Sleeps(t)) = 0)

C3_Witness ==
    \E t \in Threads :
        /\ Len(Invocations(t)) = 2
        /\ Len(Sleeps(t)) = 1
        /\ xlog[t][Len(xlog[t])].err.msg = MsgBadData
        /\ outcome[t].kind = "raise"

\* C4: execute() never invokes the operation more than max_retries + 1 times,
\* and a successful invocation is the last event of the call, its result the
\* value execute() returns.
C4_BoundedAttempts ==
    \A t \in Threads :
        /\ Len(Invocations(t)) <= handler[t].max_retries + 1
        /\ \A i \in DOMAIN xlog[t] :
             (IsInvoke(xlog[t][i]) /\ xlog[t][i].ok)
             => /\ i = Len(xlog[t])
                /\ outcome[t] = Returned(xlog[t][i].val)
                /\ pc[t] = "x_done"

C4_Witness ==
    \E t \in Threads :
        /\ Len(Invocations(t)) = handler[t].max_retries + 1
        /\ Len(Invocations(t)) >= 3
        /\ xlog[t][Len(xlog[t])].ok
        /\ outcome[t] = Returned("r2")

----------------------------------------------------------------------------
(* SpecDelay: calculate_delay applied once to drawn inputs *)

InitDelay ==
    /\ clock = EpochNow
    /\ ThreadInit
    /\ HeaderInit
    /\ LimiterInit(DefaultMinInterval, DefaultMaxInterval, TRUE)
    /\ RetryInit(DefaultRetryHandler)
    /\ \E h \in Policies, k \in 0..MaxAttemptIndex :
         calc = [h |-> h, k |-> k, jitter |-> 0, delay |-> 0, done |-> FALSE]
    /\ CacheInit(DefaultTtl)
    /\ GovInit
    /\ AtomicInit
    /\ mk = NoMake
    /\ RouterInit(NoFailures)
    /\ ExtraInit

NextDelay == CalculateDelayApply

SpecDelay == InitDelay /\ [][NextDelay]_vars

\* 2^k by repeated doubling
RECURSIVE Doubled(_, _)
Doubled(x, k) == IF k = 0 THEN x ELSE Doubled(x + x, k - 1)

\* C5: with jitter disabled calculate_delay(k) = min(base_delay * 2^k,
\* max_delay); for base_delay = 5 and max_delay = 60 the delays for k = 0..4
\* are 5, 10, 20, 40, 60.
C5_BackoffGrowth ==
    (calc.done /\ ~calc.h.enable_random)
    => /\ calc.delay = Min(Doubled(calc.h.base_delay, calc.k), calc.h.max_delay)
       /\ (calc.h.base_delay = 5 /\ calc.h.max_delay = 60 /\ calc.k <= 4)
          => calc.delay = <<5, 10, 20, 40, 60>>[calc.k + 1]

C5_Witness ==
    /\ calc.done /\ ~calc.h.enable_random
    /\ calc.h.base_delay = 5 /\ calc.h.max_delay = 60
    /\ calc.k = 4 /\ calc.delay = 60

\* C6 as stated: the delay is min(base_delay * 2^k + jitter, max_delay), so it
\* never exceeds max_delay.
C6_DelayCappedAfterJitter ==
    calc.done
    => /\ calc.delay = Min(Doubled(calc.h.base_delay, calc.k) + calc.jitter,
                           calc.h.max_delay)
       /\ calc.delay <= calc.h.max_delay

\* C6 (amended): the delay is min(base_delay * 2^k, max_delay) + jitter, the
\* jitter being 0 when disabled and in [1, 3] when enabled; so a sleep is at
\* most max_delay without jitter and at most max_delay + 3 with it.
C6_DelayCappedBeforeJitter ==
    calc.done
    => /\ calc.delay = Min(Doubled(calc.h.base_delay, calc.k), calc.h.max_delay)
                       + calc.jitter
       /\ (~calc.h.enable_random => calc.jitter = 0 /\ calc.delay <= calc.h.max_delay)
       /\ (calc.h.enable_random => calc.jitter \in 1..3
                                   /\ calc.delay <= calc.h.max_delay + 3)

C6_Witness ==
    /\ calc.done /\ calc.h.enable_random
    /\ calc.h.base_delay = 5 /\ calc.h.max_delay = 60 /\ calc.k = 4
    /\ calc.delay = 63

----------------------------------------------------------------------------
(* SpecCache: one DataCache under any sequence of get/set/clear calls, ttl *)
(* assignments and clock advances                                          *)

CacheKeys == {<<"k1">>, <<"k2">>}
CacheValues == {<<"v1">>, <<"v2">>}

InitCache ==
    /\ clock = EpochNow
    /\ ThreadInit
    /\ HeaderInit
    /\ LimiterInit(DefaultMinInterval, DefaultMaxInterval, TRUE)
    /\ RetryInit(DefaultRetryHandler)
    /\ calc = NoCalc
    /\ \E ttl \in 0..MaxTtl : CacheInit(ttl)
    /\ GovInit
    /\ AtomicInit
    /\ mk = NoMake
    /\ RouterInit(NoFailures)
    /\ ExtraInit

\* the calls a client of the cache makes, MaxCacheOps of them at most
ClientGet ==
    /\ cache_op.seq < MaxCacheOps
    /\ \E k \in CacheKeys : CacheGet(k)
    /\ UNCHANGED <<clock, outsideCache>>
ClientSet ==
    /\ cache_op.seq < MaxCacheOps
    /\ \E k \in CacheKeys, v \in CacheValues : CacheSet(k, v)
    /\ UNCHANGED <<clock, outsideCache>>
ClientClear ==
    /\ cache_op.seq < MaxCacheOps
    /\ CacheClear
    /\ UNCHANGED <<clock, outsideCache>>

NextCache ==
    \/ Tick
    \/ ClientGet
    \/ ClientSet
    \/ ClientClear
    \/ \E x \in 0..MaxTtl : SetTtlSeconds(x)

SpecCache == InitCache /\ [][NextCache]_vars

\* C7: get(key) returns a value only if that value was stored by the most
\* recent set of the key and the time of the get is strictly before that
\* entry's expiry; otherwise it returns the miss signal.
C7_NoStaleValue ==
    (cache_op.op = "get" /\ cache_op.value # NoneValue)
    => /\ cache_op.key \in DOMAIN last_set
       /\ cache_op.value = last_set[cache_op.key].value
       /\ cache_op.at < last_set[cache_op.key].at + last_set[cache_op.key].ttl

C7_Witness ==
    /\ cache_op.op = "get" /\ cache_op.value = <<"v2">>
    /\ cache_op.at > last_set[cache_op.key].at

\* C8: a get(key) at or after the entry's expiry returns a miss and removes
\* that entry (and no other); a get on an unexpired or absent key leaves the
\* table unchanged.
C8_LazyEviction ==
    [][(cache_op'.seq # cache_op.seq /\ cache_op'.op = "get")
       => LET k == cache_op'.key IN
          IF k \in DOMAIN cache /\ clock >= cache[k].expire
          THEN /\ cache_op'.value = NoneValue
               /\ DOMAIN cache' = DOMAIN cache \ {k}
               /\ \A x \in DOMAIN cache' : cache'[x] = cache[x]
          ELSE cache' = cache]_vars

C8_Witness ==
    /\ cache_op.op = "get" /\ cache_op.evicted /\ cache_op.value = NoneValue
    /\ cache_op.key \notin DOMAIN cache
    /\ cache_op.at >= cache_op.old
    /\ DOMAIN cache # {}

\* C9: a set on a key that already has an entry replaces the value and the
\* expiry: the entry then expires at (time of the set + ttl_seconds at the
\* set), and every other key's entry is unchanged.
C9_SetOverwrites ==
    [][(cache_op'.seq # cache_op.seq /\ cache_op'.op = "set"
        /\ cache_op'.key \in DOMAIN cache)
       => LET k == cache_op'.key IN
          /\ cache'[k] = [value |-> cache_op'.value, expire |-> clock + ttl_seconds]
          /\ DOMAIN cache' = DOMAIN cache
          /\ \A x \in DOMAIN cache \ {k} : cache'[x] = cache[x]]_vars

C9_Witness ==
    /\ cache_op.op = "set" /\ cache_op.old >= 0
    /\ cache[cache_op.key].expire = cache_op.at + cache_op.ttl
    /\ cache[cache_op.key].expire > cache_op.old
    /\ Cardinality(DOMAIN cache) = 2

----------------------------------------------------------------------------
(* SpecGoverned: threads making governed calls of any operation at once,   *)
(* on the shared limiter, handler and cache                                *)

InitGoverned ==
    /\ clock = EpochNow
    /\ ThreadInit
    /\ HeaderInit
    /\ LimiterInit(DefaultMinInterval, DefaultMaxInterval, TRUE)
    /\ RetryInit(Policy(MaxGovRetries, DefaultBaseDelay, DefaultMaxDelay, TRUE))
    /\ calc = NoCalc
    /\ CacheInit(DefaultTtl)
    /\ GovInit
    /\ AtomicInit
    /\ mk = NoMake
    /\ RouterInit(NoFailures)
    /\ ExtraInit

NextGoverned ==
    \/ AdvanceToWakeSoon
    \/ \E t \in Threads, a \in GovArgs : GovCall(t, a)
    \/ \E t \in Threads : GovSteps(t)
    \/ \E t \in Threads : WaitSteps(t)
    \/ \E t \in Threads : ExecuteSteps(t)

SpecGoverned == InitGoverned /\ [][NextGoverned]_vars

\* C10: every entry a governed call writes into the shared cache expires
\* exactly that operation's own TTL after the write, whatever other governed
\* calls run at the same time.
C10_OwnTtl ==
    cache_op.op = "set"
    => cache[cache_op.key].expire = cache_op.at + OpTtl(cache_op.key[1])

----------------------------------------------------------------------------
(* SpecAtomic: threads running get, set and clear on one DataCache at once *)

InitAtomic ==
    /\ clock = EpochNow
    /\ ThreadInit
    /\ HeaderInit
    /\ LimiterInit(DefaultMinInterval, DefaultMaxInterval, TRUE)
    /\ RetryInit(DefaultRetryHandler)
    /\ calc = NoCalc
    /\ \E ttl \in 0..MaxTtl : CacheInit(ttl)
    /\ GovInit
    /\ AtomicInit
    /\ mk = NoMake
    /\ RouterInit(NoFailures)
    /\ ExtraInit

NextAtomic ==
    \/ Tick
    \/ \E t \in Threads, k \in CacheKeys : AtomicCall(t, "get", k, NoneValue)
    \/ \E t \in Threads, k \in CacheKeys, v \in CacheValues : AtomicCall(t, "set", k, v)
    \/ \E t \in Threads : AtomicCall(t, "clear", <<>>, NoneValue)
    \/ \E t \in Threads : AtomicSteps(t)

SpecAtomic == InitAtomic /\ [][NextAtomic]_vars

\* no thread is inside a cache call's body
Quiescent == \A t \in Threads : pc[t] \in {"idle", "c_lock"}

\* C11: get, set and clear are atomic with respect to one another: whenever
\* no call is in progress the table is the one the same calls leave when run
\* one at a time, every finished call returned what it returns in that order,
\* and after a clear() only keys set again since are in the table.
C11_Atomic ==
    /\ Quiescent => cache = lin.table
    /\ \A t \in Threads : cache_call[t].done => cache_call[t].result = cache_call[t].expect
    /\ Quiescent => DOMAIN cache \subseteq lin.set_since

C11_Witness ==
    \E t \in Threads, u \in Threads :
        /\ t # u
        /\ pc[t] = "c_lock" /\ cache_call[t].op = "get"
        /\ cache_lock = u /\ pc[u] = "c_set_put"
        /\ cache_call[u].key = cache_call[t].key
        /\ lin.cleared

----------------------------------------------------------------------------
(* SpecKey: _make_key applied to two drawn calls *)

KwNames == { <<"a", "d", "j", "u", "s", "t">>, <<"p", "e", "r", "i", "o", "d">>,
             <<"s", "o", "u", "r", "c", "e">> }
KwValues == {1, 5}
\* keyword arguments as the call site writes them: no name twice
KwargLists ==
    { q \in UNION { [1..n -> KwNames \X KwValues] : n \in 0..MaxKwargs } :
        \A i \in DOMAIN q : \A j \in DOMAIN q : i # j => q[i][1] # q[j][1] }
KeyCalls ==
    [prefix : {"spot", "hist"}, args : {<<>>, <<"000001">>}, kwargs : KwargLists]

InitKey ==
    /\ clock = EpochNow
    /\ ThreadInit
    /\ HeaderInit
    /\ LimiterInit(DefaultMinInterval, DefaultMaxInterval, TRUE)
    /\ RetryInit(DefaultRetryHandler)
    /\ calc = NoCalc
    /\ CacheInit(DefaultTtl)
    /\ GovInit
    /\ AtomicInit
    /\ \E a \in KeyCalls, b \in KeyCalls :
         mk = [NoMake EXCEPT !.a = a, !.b = b, !.done = FALSE]
    /\ RouterInit(NoFailures)
    /\ ExtraInit

NextKey == MakeKeyApply

SpecKey == InitKey /\ [][NextKey]_vars

Items(q) == {q[i] : i \in DOMAIN q}

\* C12: two _make_key calls with the same prefix, the same positional
\* arguments and the same keyword name/value pairs yield the same key,
\* whatever order the keyword arguments are written in.
C12_KeyOrderFree ==
    (mk.done /\ mk.a.prefix = mk.b.prefix /\ mk.a.args = mk.b.args
     /\ Items(mk.a.kwargs) = Items(mk.b.kwargs))
    => mk.key_a = mk.key_b

C12_Witness ==
    /\ mk.done
    /\ mk.a.prefix = mk.b.prefix /\ mk.a.args = mk.b.args
    /\ Items(mk.a.kwargs) = Items(mk.b.kwargs)
    /\ Len(mk.a.kwargs) = 2 /\ mk.a.kwargs # mk.b.kwargs
    /\ mk.key_a = mk.key_b

----------------------------------------------------------------------------
(* SpecRouter: one SourceRouter under any sequence of get_source,          *)
(* mark_failed, mark_success and reset calls                               *)

RouterOperations == {"spot", "hist", "nosuch"}
RouterSources == {"em", "tx", "sina", "xx"}
Preferences == RouterSources \cup {"", NoSource}

InitRouter ==
    /\ clock = EpochNow
    /\ ThreadInit
    /\ HeaderInit
    /\ LimiterInit(DefaultMinInterval, DefaultMaxInterval, TRUE)
    /\ RetryInit(DefaultRetryHandler)
    /\ calc = NoCalc
    /\ CacheInit(DefaultTtl)
    /\ GovInit
    /\ AtomicInit
    /\ mk = NoMake
    /\ RouterInit(NoFailures)
    /\ ExtraInit

NextRouter ==
    \/ \E o \in RouterOperations, p \in Preferences : ClientGetSource(o, p)
    \/ \E o \in RouterOperations, x \in RouterSources : ClientMarkFailed(o, x)
    \/ \E o \in RouterOperations, x \in RouterSources : ClientMarkSuccess(o, x)
    \/ ClientReset

SpecRouter == InitRouter /\ [][NextRouter]_vars

\* the configured sources of an operation that are not marked failed in fs
Surviving(fs, op) == Configured(op) \ Failed(fs, op)

\* C13: get_source returns a source configured for the operation and not in
\* its failed set, or None; None exactly when no configured source survives.
C13_SourceUsable ==
    router_op.op = "get_source"
    => LET live == Surviving(router_op.before, router_op.operation) IN
       /\ router_op.result \in live \cup {NoSource}
       /\ (router_op.result = NoSource) <=> (live = {})

C13_Witness ==
    /\ router_op.op = "get_source"
    /\ router_op.result = NoSource
    /\ Configured(router_op.operation) # {}
    /\ router_op.source \in Configured(router_op.operation)

\* C14: get_source returns preferred when preferred is non-empty, configured
\* and not marked failed; otherwise, when a candidate survives, the survivor
\* that comes first in the configured priority order.
C14_PreferredFirst ==
    router_op.op = "get_source"
    => LET op == router_op.operation
           live == Surviving(router_op.before, op)
           first == CHOOSE i \in DOMAIN Available(op) :
                        /\ Available(op)[i] \in live
                        /\ \A j \in 1..(i - 1) : Available(op)[j] \notin live
       IN IF router_op.source \in live /\ router_op.source \notin {"", NoSource}
          THEN router_op.result = router_op.source
          ELSE live # {} => router_op.result = Available(op)[first]

C14_Witness ==
    /\ router_op.op = "get_source"
    /\ router_op.operation = "hist"
    /\ router_op.source = "em"
    /\ router_op.result = "tx"

\* C15: after mark_failed(op, s), get_source(op, preferred=s) does not return
\* s until mark_success(op, s) or reset() is called; right after reset(),
\* get_source(op, preferred=s) returns s for every configured s of every op.
C15_FailedStaysOut ==
    /\ router_op.op = "get_source"
       => <<router_op.operation, router_op.result>> \notin router_op.marked
    /\ \A m \in router_op.marked :
         GetSource(failed_sources, m[1], m[2]) # m[2]
    /\ router_op.op = "reset"
       => \A o \in DOMAIN DEFAULT_SOURCES : \A x \in Configured(o) :
            GetSource(failed_sources, o, x) = x

C15_Witness ==
    /\ router_op.op = "get_source"
    /\ <<router_op.operation, router_op.source>> \in router_op.marked
    /\ router_op.operation = "spot" /\ router_op.source = "em"
    /\ router_op.result = "sina"

SameFailed(a, b) == \A o \in DOMAIN a \cup DOMAIN b : Failed(a, o) = Failed(b, o)

\* C16: mark_failed(op, s) twice leaves the failed sets as once does, so does
\* mark_success(op, s) twice, and mark_success on a source that is not marked
\* failed changes no failed set.
C16_Idempotent ==
    [][(router_op'.seq # router_op.seq)
       => /\ (router_op'.op \in {"mark_failed", "mark_success"} /\ router_op'.again)
             => SameFailed(failed_sources', failed_sources)
          /\ (router_op'.op = "mark_success"
              /\ router_op'.source \notin Failed(failed_sources, router_op'.operation))
             => SameFailed(failed_sources', failed_sources)]_vars

C16_Witness ==
    /\ router_op.op = "mark_success" /\ router_op.again
    /\ router_op.operation \in DOMAIN failed_sources
    /\ router_op.source \notin Failed(failed_sources, router_op.operation)
    /\ router_op.seq = 3

----------------------------------------------------------------------------
(* SpecFailover: one get_minute / get_intraday call, with any source       *)
(* argument, while other threads call the router                           *)

FailoverSources == {"em", "sina", "tx"}
FailoverArgs ==
    { [op |-> o, symbol |-> "000001", source |-> x, period |-> DefaultPeriod(o),
       adjust |-> "", use_cache |-> u] :
        o \in FailoverOps, x \in FailoverSources, u \in BOOLEAN }

InitFailover ==
    /\ clock = EpochNow
    /\ ThreadInit
    /\ HeaderInit
    /\ LimiterInit(DefaultMinInterval, DefaultMaxInterval, TRUE)
    /\ RetryInit(Policy(MaxGovRetries, DefaultBaseDelay, DefaultMaxDelay, TRUE))
    /\ calc = NoCalc
    /\ CacheInit(DefaultTtl)
    /\ GovInit
    /\ AtomicInit
    /\ mk = NoMake
    /\ RouterInit(NoFailures)
    /\ ExtraInit

\* router calls of other threads, on configured sources only, MaxMeddling of
\* them at most
MeddleMarkFailed(op, src) ==
    /\ router_op.clients < MaxMeddling
    /\ ClientMarkFailed(op, src)
MeddleMarkSuccess(op, src) ==
    /\ router_op.clients < MaxMeddling
    /\ ClientMarkSuccess(op, src)
MeddleReset ==
    /\ router_op.clients < MaxMeddling
    /\ ClientReset

NextFailover ==
    \/ AdvanceToWake
    \/ \E a \in FailoverArgs : GovCall(1, a)
    \/ \E t \in Threads : GovSteps(t)
    \/ \E t \in Threads : FailoverSteps(t)
    \/ \E t \in Threads : WaitSteps(t)
    \/ \E t \in Threads : ExecuteSteps(t)
    \/ \E o \in FailoverOps : \E x \in Configured(o) : MeddleMarkFailed(o, x)
    \/ \E o \in FailoverOps : \E x \in Configured(o) : MeddleMarkSuccess(o, x)
    \/ MeddleReset

SpecFailover == InitFailover /\ [][NextFailover]_vars

\* C17: the failed set of each operation is a subset of that operation's
\* configured candidate list.
C17_FailedConfigured ==
    \A o \in DOMAIN failed_sources : failed_sources[o] \subseteq Configured(o)

\* the fetch of thread t's governed call failed with a transient failure on
\* every attempt of the execute() that just ended
RetriesExhausted(t) ==
    /\ outcome[t].kind = "raise"
    /\ AllTransient(t)
    /\ Len(Invocations(t)) = handler[t].max_retries + 1

\* C18: when a get_minute / get_intraday call made with a configured source
\* has its fetch fail with a retryable failure on every attempt while another
\* configured source of the operation is not marked failed, the call marks
\* the failing source as failed and restarts with the other source.
C18_FailsOver ==
    [][\A t \in Threads :
         (/\ pc[t] = "g_alt" /\ pc'[t] # "g_alt"
          /\ RetriesExhausted(t)
          /\ gov_args[t].source \in Configured(gov_args[t].op)
          /\ Surviving(failed_sources, gov_args[t].op) \ {gov_args[t].source} # {})
         => /\ pc'[t] = "g_mark"
            /\ alt_source'[t] \in Configured(gov_args[t].op) \ {gov_args[t].source}]_vars

\* C19: a non-retryable fetch failure inside a governed call never triggers
\* source failover: no source is marked failed because of it and no other
\* source is fetched.
C19_NoFailoverOnFatal ==
    \A t \in Threads :
        (caller[t] = "gov" /\ pc[t] = "g_mark") => IsRetryableError(outcome[t].err)

\* C20: a governed call with failover attempts at most as many sources as are
\* configured for the operation, whatever the other threads' mark_failed,
\* mark_success and reset calls.
C20_BoundedSources ==
    \A t \in Threads :
        gov_args[t].op \in FailoverOps
        => Len(gov_tried[t]) <= Len(Available(gov_args[t].op))

\* C21: when get_source finds every configured source of the operation marked
\* failed after the fetch of a governed call has failed, the caller receives a
\* distinct "no source available" condition, not the fetch's own failure.
C21_NoSourceCondition ==
    \A t \in Threads :
        (/\ pc[t] = "g_done" /\ gov_args[t].op \in FailoverOps
         /\ gov_result[t].kind = "raise"
         /\ alt_source[t] = NoSource)
        => gov_result[t].err # outcome[t].err

----------------------------------------------------------------------------
(* SpecHit: governed calls with caching enabled, one after another or at   *)
(* once, so that a call finds the entry an earlier call stored             *)

HitArgs ==
    { [op |-> o, symbol |-> "000001", source |-> "tx",
       period |-> DefaultPeriod(o), adjust |-> "", use_cache |-> TRUE] :
        o \in {"spot", "minute"} }

InitHit ==
    /\ clock = EpochNow
    /\ ThreadInit
    /\ HeaderInit
    /\ LimiterInit(DefaultMinInterval, DefaultMaxInterval, TRUE)
    /\ RetryInit(Policy(MaxGovRetries, DefaultBaseDelay, DefaultMaxDelay, TRUE))
    /\ calc = NoCalc
    /\ CacheInit(DefaultTtl)
    /\ GovInit
    /\ AtomicInit
    /\ mk = NoMake
    /\ RouterInit(NoFailures)
    /\ ExtraInit

NextHit ==
    \/ AdvanceToWakeSoon
    \/ \E t \in Threads, a \in HitArgs : GovCall(t, a)
    \/ \E t \in Threads : GovSteps(t)
    \/ \E t \in Threads : FailoverSteps(t)
    \/ \E t \in Threads : WaitSteps(t)
    \/ \E t \in Threads : ExecuteSteps(t)

SpecHit == InitHit /\ [][NextHit]_vars

\* C22: a governed call with caching enabled that finds an unexpired entry
\* for its key returns that entry and ends there: no wait(), no fetch, and
\* the limiter (its _last_request_time included), the session headers, the
\* retrier and the router are left as they were.
C22_HitBypasses ==
    [][\A t \in Threads :
         /\ (/\ pc[t] = "g_lookup" /\ pc'[t] # "g_lookup"
             /\ CacheHit(cache, GovKey(gov_args[t]), clock))
            => /\ pc'[t] = "g_done"
               /\ gov_result'[t] = [kind |-> "return",
                                     val |-> cache[GovKey(gov_args[t])].value,
                                     err |-> NoError]
               /\ UNCHANGED <<limiterVars, headerVars, retryVars, routerVars, sleep_until>>
         /\ pc[t] = "g_done" => pc'[t] = "g_done"]_vars

C22_Witness ==
    \E t \in Threads :
        /\ pc[t] = "g_done" /\ gov_result[t].kind = "return"
        /\ gov_tried[t] = <<>> /\ xlog[t] = <<>>
        /\ cache_op.op = "get" /\ cache_op.value = gov_result[t].val
        /\ Len(releases) = 1

----------------------------------------------------------------------------
(* SpecEndToEnd: one governed call of any operation, on a global handler   *)
(* of any policy configure_retry_handler can set, on a limiter another     *)
(* thread has called wait() on before                                      *)

\* the handlers get_retry_handler and configure_retry_handler make: jitter on
ConfiguredPolicies == {h \in Policies : h.enable_random}

InitEndToEnd ==
    /\ clock = EpochNow
    /\ ThreadInit
    /\ HeaderInit
    /\ LimiterInit(DefaultMinInterval, DefaultMaxInterval, TRUE)
    /\ \E h \in ConfiguredPolicies : RetryInit(h)
    /\ calc = NoCalc
    /\ CacheInit(DefaultTtl)
    /\ GovInit
    /\ AtomicInit
    /\ mk = NoMake
    /\ RouterInit(NoFailures)
    /\ ExtraInit

\* a wait() of another thread, begun before the governed call is
EarlierWait(t) ==
    /\ gov_calls = 0
    /\ wait_calls = 0
    /\ WaitCall(t)

\* the governed call, made while no other thread is inside wait()
CallAlone(t, a) ==
    /\ \A u \in Threads \ {t} : pc[u] = "idle"
    /\ GovCall(t, a)

NextEndToEnd ==
    \/ AdvanceToWake
    \/ \E a \in GovArgs : CallAlone(1, a)
    \/ EarlierWait(2)
    \/ \E t \in Threads : GovSteps(t)
    \/ \E t \in Threads : WaitSteps(t)
    \/ \E t \in Threads : ExecuteSteps(t)

SpecEndToEnd == InitEndToEnd /\ [][NextEndToEnd]_vars

\* the fetch of thread t's governed call fails with a retryable failure the
\* first two times it is invoked and succeeds every time after
FailsTwiceThenSucceeds(t) ==
    /\ Invocations(t) # <<>>
    /\ \A i \in DOMAIN Invocations(t) :
         IF i <= 2
         THEN ~Invocations(t)[i].ok /\ Invocations(t)[i].err.msg \in TransientMsgs
         ELSE Invocations(t)[i].ok

\* the governed call of thread t is over, its fetch having behaved so
EndedAfterTwoFailures(t) ==
    /\ caller[t] = "gov" /\ pc[t] = "g_done"
    /\ handler[t].max_retries >= 2
    /\ FailsTwiceThenSucceeds(t)

\* what such a call has done, save for the length of its sleeps
TwoFailuresOutcome(t) ==
    /\ Len(Invocations(t)) = 3
    /\ Len(Sleeps(t)) = 2
    /\ Len(gov_tried[t]) = 1
    /\ Len(releases) <= 1 + wait_calls
    /\ gov_result[t] = [kind |-> "return",
                         val |-> Output(gov_args[t], Invocations(t)[3].val),
                         err |-> NoError]

\* C23 as stated: a governed call whose fetch fails twice with a retryable
\* failure and then succeeds (max_retries >= 2) returns the success value,
\* calls wait() once, invokes the fetch three times and sleeps twice in the
\* retrier, the sleeps computed for failure indices 0 and 1 and each of them
\* at most max_delay.
C23_TwoSleepsCapped ==
    \A t \in Threads :
        EndedAfterTwoFailures(t)
        => /\ TwoFailuresOutcome(t)
           /\ \A i \in DOMAIN Sleeps(t) :
                /\ \E j \in Jitters :
                     Sleeps(t)[i].d = CalculateDelay(handler[t], i - 1, j)
                /\ Sleeps(t)[i].d <= handler[t].max_delay

\* C23 (amended): ... the sleep after failure k (k = 0, 1) being
\* min(base_delay * 2^k, max_delay) plus a jitter in [1, 3]: the cap applies
\* to the exponential part only, so a sleep is at most max_delay + 3.
C23_TwoSleepsCappedBeforeJitter ==
    \A t \in Threads :
        EndedAfterTwoFailures(t)
        => /\ TwoFailuresOutcome(t)
           /\ \A i \in DOMAIN Sleeps(t) :
                LET capped == Min(Doubled(handler[t].base_delay, i - 1),
                                  handler[t].max_delay)
                IN /\ Sleeps(t)[i].d - capped \in 1..3
                   /\ Sleeps(t)[i].d <= handler[t].max_delay + 3

C23_Witness ==
    \E t \in Threads :
        /\ EndedAfterTwoFailures(t)
        /\ handler[t].max_retries = 2
        /\ gov_args[t].use_cache
        /\ Sleeps(t)[1].d < handler[t].max_delay
        /\ Sleeps(t)[2].d > handler[t].max_delay

----------------------------------------------------------------------------
(* SpecReconfig: one RateLimiter, threads calling wait() and set_interval() *)
(* at once                                                                  *)

NextReconfig ==
    \/ Tick
    \/ \E t \in Threads : WaitCall(t)
    \/ \E t \in Threads : WaitSteps(t)
    \/ \E t \in Threads, lo \in 1..MaxInterval,
          hi \in (1..MaxInterval) \cup {NoneInterval} : SetIntervalCall(t, lo, hi)
    \/ \E t \in Threads : SetIntervalSteps(t)

SpecReconfig == InitLimiter /\ [][NextReconfig]_vars

\* C24: _last_request_time never decreases, whatever the interleaving of
\* wait() and set_interval() calls.
C24_LastRequestMonotone ==
    [][last_request_time' >= last_request_time]_vars

C24_Witness ==
    /\ Len(releases) = 2 /\ releases[2] > releases[1]
    /\ last_request_time = releases[2]
    /\ Len(configs) = 2
    /\ <<min_interval, max_interval>> = configs[2]
    /\ configs[2] # configs[1]

\* the pairs of bounds asked for so far
Configurations == {configs[i] : i \in DOMAIN configs}

\* C25: set_interval replaces the two bounds atomically under the limiter's
\* lock: whenever a wait() reads the bounds (for its decision or its target)
\* they are a pair some caller configured, whole, and they do not change
\* while a wait() is inside its critical section.
C25_IntervalsAtomic ==
    [][/\ \A t \in Threads :
            pc[t] \in {"w_check", "w_target"}
            => <<min_interval, max_interval>> \in Configurations
       /\ limiter_lock # NoThread
          => <<min_interval', max_interval'>> = <<min_interval, max_interval>>]_vars

----------------------------------------------------------------------------
(* SpecLocks: one thread calling wait() and the cache, while the others    *)
(* call the cache and the router.  A thread inside a cache or router       *)
(* method keeps running; nothing makes a sleeping thread wake or the clock *)
(* advance.                                                                *)

LocksCacheCall(t, op, k, v) ==
    /\ lin.calls < MaxLockCalls
    /\ AtomicCall(t, op, k, v)

LocksRouterCall(t, kind, op, src) ==
    /\ router_op.clients < MaxLockCalls
    /\ LockedCall(t, kind, op, src)

NextLocks ==
    \/ AdvanceToWake
    \/ WaitCall(1)
    \/ \E t \in Threads : WaitSteps(t)
    \/ \E t \in Threads : LocksCacheCall(t, "get", <<"k1">>, NoneValue)
    \/ \E t \in Threads : LocksCacheCall(t, "set", <<"k1">>, <<"v1">>)
    \/ \E t \in Threads \ {1} : LocksCacheCall(t, "clear", <<>>, NoneValue)
    \/ \E t \in Threads : AtomicSteps(t)
    \/ \E t \in Threads \ {1},
          kind \in {"get_source", "mark_failed", "mark_success", "reset"} :
          LocksRouterCall(t, kind, "spot", "em")
    \/ \E t \in Threads : LockedSteps(t)

SpecLocks ==
    /\ InitAtomic
    /\ [][NextLocks]_vars
    /\ \A t \in Threads : WF_vars(AtomicSteps(t)) /\ WF_vars(LockedSteps(t))

\* the locks thread t holds
HeldBy(t) ==
    {l \in {"limiter", "cache", "router"} :
        (CASE l = "limiter" -> limiter_lock
           [] l = "cache" -> cache_lock
           [] OTHER -> router_lock) = t}

\* C26: no thread ever holds two of the three locks, and a cache or router
\* call that has been made completes, whether or not a thread sleeping
\* inside wait() (and holding the limiter's lock) ever wakes.
C26_IndependentLocks ==
    /\ [](\A t \in Threads : Cardinality(HeldBy(t)) <= 1)
    /\ \A t \in Threads : (pc[t] \in {"c_lock", "r_lock"}) ~> (pc[t] = "idle")

C26_Witness ==
    \E t \in Threads, u \in Threads :
        /\ pc[t] = "w_sleep" /\ limiter_lock = t /\ sleep_until[t] > clock
        /\ cache_lock = u /\ router_call[u].done
        /\ lin.calls = MaxLockCalls

----------------------------------------------------------------------------
(* SpecConfigure: one execute() call on the global handler, with           *)
(* configure_retry_handler called at any moment before, during and after   *)

NextConfigure ==
    \/ ExecuteCall(1)
    \/ \E t \in Threads : ExecuteSteps(t)
    \/ AdvanceToWake
    \/ \E n \in 0..MaxRetries, b \in {1, DefaultBaseDelay}, m \in {3, DefaultMaxDelay} :
          ConfigureRetryHandler(n, b, m)

SpecConfigure == InitRetry /\ [][NextConfigure]_vars

InExecute(t) == pc[t] \in {"x_loop", "x_invoke", "x_sleep", "x_raise"}

\* the sleeps the policy h allows after the k-th failure (0-indexed)
DelaysOf(h, k) ==
    {Min(Doubled(h.base_delay, k), h.max_delay) + j :
        j \in (IF h.enable_random THEN JitterLo..JitterHi ELSE {0})}

\* every attempt and sleep of thread t's call so far follows the policy h
FollowsPolicy(t, h) ==
    /\ Len(Invocations(t)) <= h.max_retries + 1
    /\ Len(Sleeps(t)) <= Max(h.max_retries, 0)
    /\ \A i \in DOMAIN Sleeps(t) : Sleeps(t)[i].d \in DelaysOf(h, i - 1)
    /\ (pc[t] = "x_done" /\ AllTransient(t))
       => Len(Invocations(t)) = h.max_retries + 1

\* C27: an execute() call uses one policy, the global handler of the moment
\* it started, for all its attempts and sleeps, whatever
\* configure_retry_handler calls happen meanwhile; a reconfiguration only
\* shows in calls that start after it.
C27_OnePolicyPerCall ==
    /\ [][\A t \in Threads :
            /\ InExecute(t) => handler'[t] = handler[t]
            /\ (pc[t] = "idle" /\ pc'[t] # "idle") => handler'[t] = retry_handler]_vars
    /\ [](\A t \in Threads : pc[t] # "idle" => FollowsPolicy(t, handler[t]))

\* a call in its second sleep on a handler without jitter, the global handler
\* replaced meanwhile by one that allows no retry
C27_Witness ==
    \E t \in Threads :
        /\ pc[t] = "x_sleep" /\ Len(Sleeps(t)) = 2
        /\ ~handler[t].enable_random
        /\ retry_handler.enable_random /\ retry_handler.max_retries = 0
        /\ retry_handler.base_delay # handler[t].base_delay

----------------------------------------------------------------------------
(* SpecCli: one command line run through main(), in a process whose       *)
(* limiter another thread may have used just before                        *)

CliCommands == {"spot", "hist", "info", "index", "news"}
\* the values of --adjust the model passes to hist: the default and one other
CliAdjusts(command) == IF command = "hist" THEN {"qfq", "hfq"} ELSE {""}

NextCli ==
    \/ AdvanceToWakeSoon
    \/ EarlierWait(2)
    \/ \E command \in CliCommands, no_cache \in BOOLEAN :
          \E adjust \in CliAdjusts(command) : CliParse(1, command, adjust, no_cache)
    \/ \E t \in Threads : CmdRun(t)
    \/ \E t \in Threads : GovSteps(t)
    \/ \E t \in Threads : WaitSteps(t)
    \/ \E t \in Threads : ExecuteSteps(t)

SpecCli == InitGoverned /\ [][NextCli]_vars

\* C28: a spot, hist, info or index command run with --no-cache makes its
\* governed call with caching disabled: the call neither looks the cache up
\* nor stores its result, and its source, period and adjust are the ones
\* the command line or the defaults gave.
C28_NoCacheHonoured ==
    \A t \in Threads :
        (/\ pc[t] \notin {"idle", "cli_cmd"}
         /\ cli[t].no_cache
         /\ cli[t].command \in {"spot", "hist", "info", "index"})
        => /\ ~gov_args[t].use_cache
           /\ pc[t] \notin {"g_lookup", "g_ttl", "g_set"}
           /\ gov_args[t].source = DefaultSource(cli[t].command)
           /\ gov_args[t].period = DefaultPeriod(cli[t].command)
           /\ gov_args[t].adjust =
                  (IF cli[t].command = "hist" THEN cli[t].adjust ELSE "")

----------------------------------------------------------------------------
(* Header initialisation under SpecLimiter: every wait() begins with       *)
(* init_headers() and rotate_ua()                                          *)

\* C29: header initialisation is idempotent for any interleaving of wait()
\* calls: only one session is ever created, an initialised session is never
\* replaced, and its User-Agent changes only in a rotate_ua step.
C29_InitIdempotent ==
    [][/\ sessions_created' <= 1
       /\ hdr_initialized => hdr_session'.id = hdr_session.id
       /\ (hdr_session # NoSession /\ hdr_session'.ua # hdr_session.ua)
          => \E t \in Threads : pc[t] = "h_rotate" /\ pc'[t] = "w_lock"]_vars

----------------------------------------------------------------------------
(* The sleeps of one execute() call under SpecRetry *)

\* the events of thread t's call alternate: an attempt, then, if another
\* attempt is to follow, one sleep; each sleep follows a retryable failure,
\* and a call that has ended ended on an attempt
SleepsBetweenAttempts(t) ==
    /\ \A i \in DOMAIN xlog[t] :
          IF i % 2 = 1
          THEN IsInvoke(xlog[t][i])
          ELSE /\ IsSleep(xlog[t][i])
               /\ ~xlog[t][i - 1].ok
               /\ xlog[t][i - 1].err.msg \in TransientMsgs
    /\ (pc[t] = "x_done" /\ xlog[t] # <<>>)
       => /\ IsInvoke(xlog[t][Len(xlog[t])])
          /\ Len(Sleeps(t)) = Len(Invocations(t)) - 1
    /\ pc[t] = "x_sleep" => IsSleep(xlog[t][Len(xlog[t])])

\* the sleep after the k-th failure (0-indexed) is the capped backoff plus
\* an addend from the set js when the handler has jitter enabled
SleepsBackoffPlus(t, js) ==
    \A i \in DOMAIN Sleeps(t) :
        LET h == handler[t]
            backoff == Min(Doubled(h.base_delay, i - 1), h.max_delay) IN
        Sleeps(t)[i].d - backoff \in (IF h.enable_random THEN js ELSE {0})

\* C30 as stated: one sleep between consecutive attempts and none after the
\* last; the sleep after the k-th failure is min(base_delay * 2^k, max_delay)
\* plus, with jitter, an addend in [1, 3), so that a sleep exceeds max_delay
\* by less than 3.
C30_SleepsJitterHalfOpen ==
    \A t \in Threads :
        /\ SleepsBetweenAttempts(t)
        /\ SleepsBackoffPlus(t, {j \in JitterLo..JitterHi : j < JitterHi})
        /\ \A i \in DOMAIN Sleeps(t) : Sleeps(t)[i].d - handler[t].max_delay < JitterHi

\* C30 (amended): the same, the addend being in [1, 3], both ends included,
\* so that a sleep exceeds max_delay by at most 3.
C30_SleepsJitterClosed ==
    \A t \in Threads :
        /\ SleepsBetweenAttempts(t)
        /\ SleepsBackoffPlus(t, JitterLo..JitterHi)
        /\ \A i \in DOMAIN Sleeps(t) : Sleeps(t)[i].d - handler[t].max_delay <= JitterHi

\* three retryable failures and a success, the third sleep max_delay + 3
C30_Witness ==
    \E t \in Threads :
        /\ pc[t] = "x_done" /\ handler[t].enable_random
        /\ Len(Invocations(t)) = 4 /\ Len(Sleeps(t)) = 3
        /\ xlog[t][Len(xlog[t])].ok
        /\ Sleeps(t)[1].d < handler[t].max_delay
        /\ Sleeps(t)[3].d = handler[t].max_delay + JitterHi

----------------------------------------------------------------------------
(* One wait() under SpecLimiter: its decision, its sleep and its stamp *)

\* the targets a wait() may draw: min_interval with randomisation off, else
\* a value between the two bounds
Targets ==
    IF enable_random
    THEN Min(min_interval, max_interval)..Max(min_interval, max_interval)
    ELSE {min_interval}

\* C31: wait() does not sleep when elapsed >= min_interval; when elapsed <
\* min_interval it sleeps max(0, target - elapsed), target being min_interval
\* (randomisation off) or a value in [min_interval, max_interval]
\* (randomisation on), so with min_interval <= max_interval the sleep is
\* positive and never longer than max_interval; in both cases the call then
\* sets _last_request_time to the current time.
C31_WaitSleepsToTarget ==
    [][\A t \in Threads :
        LET elapsed == clock - last_request_time IN
        /\ (pc[t] = "w_check" /\ pc'[t] # "w_check")
           => /\ elapsed >= min_interval => pc'[t] = "w_write" /\ wait_slept'[t] = 0
              /\ elapsed < min_interval => pc'[t] = "w_target"
        /\ (pc[t] = "w_target" /\ pc'[t] # "w_target")
           => /\ \E target \in Targets :
                   wait_slept'[t] = Max(0, target - wait_elapsed[t])
              /\ wait_slept'[t] > 0
                 => pc'[t] = "w_sleep" /\ sleep_until'[t] = clock + wait_slept'[t]
              /\ wait_slept'[t] = 0 => pc'[t] = "w_write"
              /\ min_interval <= max_interval
                 => wait_slept'[t] > 0 /\ wait_slept'[t] <= max_interval
        /\ (pc[t] = "w_sleep" /\ pc'[t] # "w_sleep")
           => clock >= sleep_until[t] /\ pc'[t] = "w_write"
        /\ (pc[t] = "w_write" /\ pc'[t] # "w_write")
           => last_request_time' = clock]_vars

\* a wait() that found elapsed = 0, drew the largest target and has slept
\* max_interval seconds before stamping the time
C31_Witness ==
    \E t \in Threads :
        /\ pc[t] = "idle" /\ enable_random /\ min_interval < max_interval
        /\ wait_slept[t] = max_interval
        /\ Len(releases) = 2 /\ last_request_time = clock
        /\ releases[2] - releases[1] = max_interval

----------------------------------------------------------------------------
(* SpecRepeat: a governed call with caching enabled, and, once it has      *)
(* returned, the same call again by another thread, well within the TTL;   *)
(* sources of get_minute may have been marked failed beforehand            *)

RepeatArgs ==
    { [op |-> "spot", symbol |-> "000001", source |-> "tx", period |-> "",
       adjust |-> "", use_cache |-> TRUE] }
    \cup { [op |-> "minute", symbol |-> "000001", source |-> x,
            period |-> DefaultPeriod("minute"), adjust |-> "", use_cache |-> TRUE] :
              x \in Configured("minute") }

\* the arguments thread t's governed call was made with: a failover replaces
\* source on the way, the first source fetched from is the caller's
FirstArgs(t) ==
    [gov_args[t] EXCEPT !.source = IF gov_tried[t] = <<>> THEN @ ELSE gov_tried[t][1]]

\* a source is marked failed before any governed call is made
MarkedBefore(op, src) ==
    /\ gov_calls = 0
    /\ MeddleMarkFailed(op, src)

\* thread t repeats the call thread u has returned from
RepeatCall(t, u) ==
    /\ pc[u] = "g_done"
    /\ gov_result[u].kind = "return"
    /\ GovCall(t, FirstArgs(u))

NextRepeat ==
    \/ AdvanceToWakeSoon
    \/ \E x \in Configured("minute") : MarkedBefore("minute", x)
    \/ \E a \in RepeatArgs : GovCall(1, a)
    \/ RepeatCall(2, 1)
    \/ \E t \in Threads : GovSteps(t)
    \/ \E t \in Threads : FailoverSteps(t)
    \/ \E t \in Threads : WaitSteps(t)
    \/ \E t \in Threads : ExecuteSteps(t)

SpecRepeat == InitFailover /\ [][NextRepeat]_vars

\* C32: once a governed call with caching enabled has returned, the same
\* call repeated before the TTL elapses is a cache hit: it makes no fetch
\* (and no wait()) and returns what the first call returned, also when the
\* first call succeeded only after failing over to another source.
C32_RepeatIsHit ==
    (/\ pc[1] = "g_done" /\ gov_result[1].kind = "return"
     /\ gov_args[2] # NoArgs /\ FirstArgs(2) = FirstArgs(1)
     /\ FirstArgs(1).use_cache)
    => /\ gov_tried[2] = <<>>
       /\ pc[2] \in {"g_lookup", "g_done"}
       /\ pc[2] = "g_done" => gov_result[2] = gov_result[1]

\* without a failover in the first call the repeated call is a hit
RepeatIsHitWithoutFailover ==
    Len(gov_tried[1]) <= 1 => C32_RepeatIsHit

----------------------------------------------------------------------------
(* SpecPacing: threads calling wait() on the global limiter, which         *)
(* configure_rate_limiter replaces between their calls                     *)

NextPacing ==
    \/ Tick
    \/ \E t \in Threads : WaitCall(t)
    \/ \E t \in Threads : WaitSteps(t)
    \/ \E lo \in 1..MaxInterval, hi \in 1..MaxInterval, rnd \in BOOLEAN :
          ConfigureRateLimiter(lo, hi, rnd)

SpecPacing == InitLimiter /\ [][NextPacing]_vars

\* every pair of bounds configured so far has min_interval <= max_interval
BoundsOrdered == \A i \in DOMAIN configs : configs[i][1] <= configs[i][2]

\* C33: pacing survives reconfiguration: once configure_rate_limiter has
\* replaced the bounds, every release from wait() still comes at least the
\* configured min_interval after the most recent earlier release.
C33_PacingSurvives ==
    [][(/\ Len(configs) > 1 /\ BoundsOrdered
        /\ releases' # releases /\ releases # <<>>)
       => clock - releases[Len(releases)] >= min_interval]_vars

\* as long as the limiter has not been replaced the releases are paced
PacedUntilReplaced ==
    [][(/\ Len(configs) = 1 /\ BoundsOrdered
        /\ releases' # releases /\ releases # <<>>)
       => clock - releases[Len(releases)] >= min_interval]_vars

----------------------------------------------------------------------------
(* SpecGetters: threads calling the four getters, the first calls among    *)
(* them, in any interleaving                                               *)

NextGetters ==
    \/ \E t \in Threads, g \in Getters : GetterCall(t, g)
    \/ \E t \in Threads : GetterSteps(t)

SpecGetters == InitGoverned /\ [][NextGetters]_vars

\* C34: for every interleaving of concurrent first calls each getter returns
\* the same instance to all its callers: only one instance of each kind is
\* ever created, and what two threads got from the same getter is the same.
C34_OneInstance ==
    \A g \in Getters :
        /\ getters.created[g] <= 1
        /\ \A t \in Threads, u \in Threads :
             (getters.got[t][g] # NoInstance /\ getters.got[u][g] # NoInstance)
             => getters.got[t][g] = getters.got[u][g]

----------------------------------------------------------------------------
(* SpecSymbols: the fetch of get_spot / get_stock_info run through         *)
(* execute() for a symbol, on a handler of any policy                      *)

NextSymbols ==
    \/ \E op \in {"spot", "info"}, symbol \in Symbols : FetchCall(1, op, symbol)
    \/ \E t \in Threads : ExecuteSteps(t)
    \/ AdvanceToWake

SpecSymbols == InitRetry /\ [][NextSymbols]_vars

\* thread t's fetch reported missing data on the attempt logged at i
DataErrorAt(t, i) ==
    /\ caller[t] = "fetch"
    /\ i \in DOMAIN xlog[t]
    /\ IsInvoke(xlog[t][i]) /\ ~xlog[t][i].ok
    /\ xlog[t][i].err.msg = DataError(gov_args[t].op, gov_args[t].symbol)

\* C35: the ValueError with which _fetch_tx / _fetch_info report missing
\* data is non-retryable for every symbol: execute() re-raises it at once,
\* so the fetch is invoked once and no backoff sleep occurs, also when the
\* symbol's digits contain 403 or 429.
C35_DataErrorNotRetried ==
    \A t \in Threads :
        DataErrorAt(t, 1)
        => /\ ~IsRetryableError(xlog[t][1].err)
           /\ Len(xlog[t]) = 1
           /\ pc[t] = "x_done"
           /\ outcome[t] = Raised(xlog[t][1].err)

\* it is so for the symbols whose digits hold none of the keywords
DataErrorNotRetriedPlainSymbol ==
    \A t \in Threads :
        (~Contains(gov_args[t].symbol, <<"4", "0", "3">>)
         /\ ~Contains(gov_args[t].symbol, <<"4", "2", "9">>))
        => (DataErrorAt(t, 1)
            => /\ Len(xlog[t]) = 1
               /\ pc[t] = "x_done"
               /\ outcome[t] = Raised(xlog[t][1].err))

----------------------------------------------------------------------------
(* The handlers execute() may run on, under SpecRetry *)

\* C37: every RetryHandler has max_retries >= 0, execute() invokes the
\* operation at least once, and a failure execute() raises is a failure the
\* operation raised during that call.
C37_AtLeastOneAttempt ==
    \A t \in Threads :
        /\ pc[t] # "idle" => handler[t].max_retries >= 0
        /\ pc[t] = "x_done"
           => /\ Len(Invocations(t)) >= 1
              /\ outcome[t].kind = "raise"
                 => \E i \in DOMAIN xlog[t] :
                       IsInvoke(xlog[t][i]) /\ xlog[t][i].err = outcome[t].err

\* it is so whenever max_retries is not negative
AtLeastOneAttemptWhenNonNegative ==
    \A t \in Threads :
        (pc[t] = "x_done" /\ handler[t].max_retries >= 0)
        => /\ Len(Invocations(t)) >= 1
           /\ outcome[t].kind = "raise"
              => \E i \in DOMAIN xlog[t] :
                    IsInvoke(xlog[t][i]) /\ xlog[t][i].err = outcome[t].err

----------------------------------------------------------------------------
(* SpecOutcome: one get_minute / get_intraday call with any source         *)
(* argument, on whatever handler configure_retry_handler has installed,    *)
(* sources of the operation marked failed beforehand or not                *)

OutcomeArgs ==
    { [op |-> o, symbol |-> "000001", source |-> x, period |-> DefaultPeriod(o),
       adjust |-> "", use_cache |-> u] :
        o \in FailoverOps, x \in {"em", "sina"}, u \in BOOLEAN }

\* configure_retry_handler, called before the governed call is made
ConfiguredBefore(n, b, m) ==
    /\ gov_calls = 0
    /\ ConfigureRetryHandler(n, b, m)

NextOutcome ==
    \/ AdvanceToWakeSoon
    \/ \E n \in (-1)..MaxGovRetries : ConfiguredBefore(n, 1, DefaultMaxDelay)
    \/ \E o \in FailoverOps : \E x \in Configured(o) : MarkedBefore(o, x)
    \/ EarlierWait(2)
    \/ \E a \in OutcomeArgs : CallAlone(1, a)
    \/ \E t \in Threads : GovSteps(t)
    \/ \E t \in Threads : FailoverSteps(t)
    \/ \E t \in Threads : WaitSteps(t)
    \/ \E t \in Threads : ExecuteSteps(t)

SpecOutcome == InitFailover /\ [][NextOutcome]_vars

\* the failure e was raised by a fetch invocation of thread t's last execute()
RaisedByFetch(t, e) ==
    \E i \in DOMAIN xlog[t] :
        IsInvoke(xlog[t][i]) /\ ~xlog[t][i].ok /\ xlog[t][i].err = e

\* the step that ends thread t's governed call
Ends(t) == caller[t] = "gov" /\ pc[t] # "g_done" /\ pc'[t] = "g_done"

\* the call ends with a result or with a failure one of its fetches raised;
\* ending for want of an alternate source, with the last failure of the
\* source just used and the failed sets as they were
EndsProperly(t) ==
    /\ gov_result'[t].kind \in {"return", "raise"}
    /\ gov_result'[t].kind = "raise" => RaisedByFetch(t, gov_result'[t].err)
    /\ pc[t] = "g_alt"
       => /\ gov_result'[t].kind = "raise"
          /\ Len(Invocations(t)) >= 1
          /\ \E n \in {Len(Invocations(t))} : gov_result'[t].err = Invocations(t)[n].err
          /\ failed_sources' = failed_sources

\* C36: a governed call ends by returning a result or by raising one
\* failure that a fetch invocation of this call raised; when the router
\* offers no alternate source different from the one just used, the failure
\* raised is the last failure of that source's fetch and the router's failed
\* sets are unchanged.
C36_OneOutcome ==
    [][\A t \in Threads : Ends(t) => EndsProperly(t)]_vars

\* it is so on every handler whose max_retries is not negative
OneOutcomeWhenNonNegative ==
    [][\A t \in Threads :
         (Ends(t) /\ retry_handler.max_retries >= 0) => EndsProperly(t)]_vars

----------------------------------------------------------------------------
(* SpecSpacing: a get_index_spot call and a get_spot call on the shared    *)
(* limiter and handler                                                     *)

SpacingArgs ==
    { [op |-> "spot", symbol |-> "000001", source |-> "tx", period |-> "",
       adjust |-> "", use_cache |-> u] : u \in BOOLEAN }

NextSpacing ==
    \/ AdvanceToWakeSoon
    \/ \E symbols \in {<<>>, <<"000300">>} : IndexSpotCall(1, symbols)
    \/ \E a \in SpacingArgs : GovCall(1, a)
    \/ \E a \in SpacingArgs : GovCall(2, a)
    \/ \E t \in Threads : GovSteps(t)
    \/ \E t \in Threads : WaitSteps(t)
    \/ \E t \in Threads : ExecuteSteps(t)
    \/ \E t \in Threads : IndexSpotSteps(t)

SpecSpacing == InitGoverned /\ [][NextSpacing]_vars

\* the times at which thread t's fetch invocations started: those of its
\* execute() call, and those of its get_index_spot call
FetchStarts(t) ==
    [i \in DOMAIN Invocations(t) |-> Invocations(t)[i].at] \o index_spot[t].at

\* C38: any two fetch invocations made through the governance layer, by the
\* same thread or by different ones, retries and the per-symbol fetches of
\* get_index_spot included, start at least min_interval apart.
C38_FetchesSpaced ==
    \A t \in Threads, u \in Threads :
        \A i \in DOMAIN FetchStarts(t), j \in DOMAIN FetchStarts(u) :
            <<t, i>> # <<u, j>>
            => \/ FetchStarts(t)[i] - FetchStarts(u)[j] >= min_interval
               \/ FetchStarts(u)[j] - FetchStarts(t)[i] >= min_interval

----------------------------------------------------------------------------
(* SpecCached: two decorated functions called by the threads while the     *)
(* clock runs and other callers assign the shared cache's ttl_seconds.     *)

\* the decorated functions: cached(prefix, ttl)
Decorated == {[prefix |-> "quote", ttl |-> 1], [prefix |-> "info", ttl |-> MaxTtl]}
\* the positional arguments they are called with
WrappedArgs == {<<"000001">>, <<"600000">>}

NextCached ==
    \/ Tick
    \/ \E t \in Threads, d \in Decorated, args \in WrappedArgs :
         WrappedCall(t, d.prefix, d.ttl, args)
    \/ \E t \in Threads : WrappedSteps(t)
    \/ \E x \in 1..MaxTtl : SetTtlSeconds(x)

SpecCached == InitCache /\ [][NextCached]_vars

\* the calls that have returned, in the order of their last cache access
WrappedLog == wrapped.log

\* every result a wrapper stored expires its decorator's ttl after the write
StoredForTtl ==
    \A i \in DOMAIN WrappedLog :
        WrappedLog[i].ran => WrappedLog[i].expire = WrappedLog[i].wrote + WrappedLog[i].ttl

\* call j repeats call i: the same function and arguments, looked up after
\* i's result was stored and less than the decorator's ttl after that write
Repeats(i, j) ==
    /\ WrappedLog[i].ran
    /\ WrappedLog[j].key = WrappedLog[i].key
    /\ WrappedLog[j].looked_seq > WrappedLog[i].wrote_seq
    /\ WrappedLog[j].looked < WrappedLog[i].wrote + WrappedLog[i].ttl

\* a repeated call does not execute the function again
RepeatServed ==
    \A i, j \in DOMAIN WrappedLog : Repeats(i, j) => ~WrappedLog[j].ran

\* C39: a function wrapped with cached(prefix, ttl=T) stores each result with
\* an expiry T seconds after the write, and within those T seconds a repeated
\* call with the same arguments returns the stored result without executing
\* the function again, whatever value the function returned.
C39_CachedHonoursTtl == StoredForTtl /\ RepeatServed

\* the results stored under the key of call i all expire the decorator's ttl
\* after their write
WritesOnTtl(i) ==
    \A k \in DOMAIN WrappedLog :
        (WrappedLog[k].ran /\ WrappedLog[k].key = WrappedLog[i].key)
            => WrappedLog[k].expire = WrappedLog[k].wrote + WrappedLog[k].ttl

\* where the cache's ttl_seconds was the decorator's ttl at every write and
\* no stored result is None, a repeated call is served from the cache
RepeatServedWhenTtlAgrees ==
    \A i, j \in DOMAIN WrappedLog :
        (Repeats(i, j) /\ WritesOnTtl(i)
           /\ \A k \in DOMAIN WrappedLog :
                 (WrappedLog[k].ran /\ WrappedLog[k].key = WrappedLog[i].key)
                    => WrappedLog[k].value # NoneValue)
            => ~WrappedLog[j].ran

----------------------------------------------------------------------------
(* The frame of the router's methods, under SpecRouter.  The candidate     *)
(* lists are DEFAULT_SOURCES: self.sources is assigned in __init__ (line   *)
(* 237) and by no method, so the model has no variable for it.             *)

\* the failed sets of the operations other than op are the same in fs and gs
SameElsewhere(fs, gs, op) ==
    /\ DOMAIN fs \ {op} = DOMAIN gs \ {op}
    /\ \A x \in DOMAIN fs \ {op} : fs[x] = gs[x]

\* C40: get_source changes no router state, and mark_failed(op, s) and
\* mark_success(op, s) change only the failed set of op: the failed sets of
\* all other operations are as they were before the call.
C40_RouterFrame ==
    /\ router_op.op = "get_source" => failed_sources = router_op.before
    /\ router_op.op \in {"mark_failed", "mark_success"}
           => SameElsewhere(router_op.before, failed_sources, router_op.operation)

\* a mark_failed that changed the failed set of its operation while another
\* operation had a failed set without that source
C40_Witness ==
    /\ router_op.op = "mark_failed"
    /\ Failed(failed_sources, router_op.operation)
           # Failed(router_op.before, router_op.operation)
    /\ \E x \in DOMAIN router_op.before \ {router_op.operation} :
           /\ router_op.before[x] # {}
           /\ router_op.source \notin router_op.before[x]

====
